---- MODULE Spec2Model ----
(***************************************************************************)
(* cacheForage (src/src/main.ts): a write-back cache that serves reads     *)
(* from a local store and migrates writes to a nonlocal store in the       *)
(* background.  Every public operation appends links to one or both of two *)
(* promise chains (cf.localPromise, cf.nonlocalPromise); a link runs when  *)
(* the previous link of its chain has settled.  Local mutations of one key *)
(* and the migration of that key run under cf.local.lock(key, ..).         *)
(*                                                                         *)
(* One action below is either the synchronous prefix of a public operation *)
(* (up to its first await) or the execution of the link at the head of a   *)
(* chain together with the promise reactions it triggers: the .catch that  *)
(* writes cf.error and the continuation of the awaiting operation.         *)
(***************************************************************************)
EXTENDS Integers, Sequences, FiniteSets, TLC

VARIABLES
    local,            \* contents of cf.local.localforage: key -> value or Null
    nonlocal,         \* contents of cf.nonlocal: key -> value or Null
    localPromise,     \* unsettled links of cf.localPromise, oldest first
    nonlocalPromise,  \* unsettled links of cf.nonlocalPromise, oldest first
    lock,             \* cf.local.lock: key -> id of the call holding it, 0 if free
    error,            \* cf.error
    cachedSize,       \* cf.cachedSize
    calls,            \* the public calls made so far, in invocation order
    budget,           \* public calls the environment may still make
    faults,           \* store failures the environment may still inject
    ser,              \* a run of a helper of the serializer module (the
                      \* file-name sanitizer or the binary serializer): its
                      \* inputs and outputs
    adapter           \* a remote adapter instance on its own: its kind, the
                      \* files of its directory and the operations invoked
                      \* on it, in invocation order

vars == <<local, nonlocal, localPromise, nonlocalPromise, lock, error,
          cachedSize, calls, budget, faults, ser, adapter>>

----------------------------------------------------------------------------
(* Bounds *)

MaxCalls == 2
MaxFaults == 2
MaxCallsKV == 3
MaxCallsRace == 4
MaxIndex == 2
MaxKeyLen == 2
MaxBytes == 8

----------------------------------------------------------------------------
(* Values *)

Keys == {"a", "b"}
\* the empty string is a key like any other
EmptyKey == ""
AllKeys == Keys \cup {EmptyKey}
KeyOrder == <<EmptyKey, "a", "b">>
Vals == {"v1", "v22"}
Null == "null"
Undefined == "undefined"
KeyError == "Error: Key does not exist"
Errs == {"e1", "e2", Undefined}

\* JavaScript truthiness of the values cf.error can hold (if (cf.error))
Truthy(x) == x \notin {Null, Undefined}

Latched == Truthy(error)

\* ser.approxSize for the string values used here: JSON.stringify(v).length
approxSize(v) == IF v = "v1" THEN 4 ELSE 5

\* the keys a store lists, in the store's order
KeysOf(store) == SelectSeq(KeyOrder, LAMBDA k : store[k] # Null)

EmptyStore == [k \in AllKeys |-> Null]

\* the first index of KeyOrder-sequence ks holding key k, 0 when absent
RECURSIVE IndexOf(_, _, _)
IndexOf(ks, k, i) ==
    IF i > Len(ks) THEN 0
    ELSE IF ks[i] = k THEN i ELSE IndexOf(ks, k, i + 1)

----------------------------------------------------------------------------
(* The file-name sanitizer of the serializer: safeify and unsafeify.        *)
(* A string is the sequence of its code points (safeify iterates it with    *)
(* Array.from) or of its UTF-16 code units (unsafeify indexes it).          *)

\* code points: a, u, space, %, A, U+03B1, U+1F600, U+1F601
Chars == {97, 117, 32, 37, 65, 945, 128512, 128513}

\* the strings of at most n code points of Chars
StringsUpTo(n) == UNION {[1..m -> Chars] : m \in 0..n}

\* code points for file names: Chars and NUL, LF, -, ., /, 0, \, _, U+00FF,
\* U+0100, U+FFFF
NameChars == Chars \cup {0, 10, 45, 46, 47, 48, 92, 95, 255, 256, 65535}

\* the strings of at most n code points of NameChars
NameStringsUpTo(n) == UNION {[1..m -> NameChars] : m \in 0..n}

\* /^[a-z0-9_-]$/.test(c)
IsSafeChar(c) == c \in (97..122) \cup (48..57) \cup {95, 45}

\* c.charCodeAt(0): the first UTF-16 code unit of code point c, the high
\* surrogate when c is above U+FFFF
charCodeAt0(c) ==
    IF c > 65535 THEN 55296 + ((c - 65536) \div 1024) ELSE c

\* the UTF-16 code units of code point c
CodeUnits(c) ==
    IF c > 65535
    THEN <<55296 + ((c - 65536) \div 1024), 56320 + ((c - 65536) % 1024)>>
    ELSE <<c>>

\* the UTF-16 code units of a string of code points
RECURSIVE Units(_)
Units(key) ==
    IF key = <<>> THEN <<>> ELSE CodeUnits(Head(key)) \o Units(Tail(key))

\* a mutant of HexDigit: the digits above 9 are upper-case letters
HexDigit_upper(d) == IF d < 10 THEN 48 + d ELSE 55 + d

\* the digit characters of toString(16): 0-9, a-f
HexDigit(d) == IF d < 10 THEN 48 + d ELSE 87 + d

\* cc.toString(16)
RECURSIVE ToHex(_)
ToHex(n) ==
    IF n < 16 THEN <<HexDigit(n)>>
    ELSE ToHex(n \div 16) \o <<HexDigit(n % 16)>>

\* .padStart(n, "0")
RECURSIVE PadStart(_, _)
PadStart(s, n) == IF Len(s) >= n THEN s ELSE PadStart(<<48>> \o s, n)

\* safeify, lines 158-164: what one code point maps to
SafeChar(c) ==
    IF IsSafeChar(c) THEN <<c>>
    ELSE LET cc == charCodeAt0(c) IN
         IF cc <= 255 THEN <<37>> \o PadStart(ToHex(cc), 2)
         ELSE <<37, 117>> \o PadStart(ToHex(cc), 4)

\* safeify, lines 157-166
RECURSIVE safeify(_)
safeify(key) ==
    IF key = <<>> THEN <<>> ELSE SafeChar(Head(key)) \o safeify(Tail(key))

\* name.slice(from, to) on 1-based positions from..to, clipped to the string
Slice(name, from, to) ==
    IF from > Len(name) THEN <<>>
    ELSE SubSeq(name, from, IF to > Len(name) THEN Len(name) ELSE to)

\* the value of a hexadecimal digit character, -1 for any other character
HexValue(c) ==
    IF c \in 48..57 THEN c - 48
    ELSE IF c \in 97..102 THEN c - 87
    ELSE IF c \in 65..70 THEN c - 55
    ELSE 0 - 1

\* parseInt(ccs, 16) for a string without sign, blank or 0x prefix: the
\* value of its longest prefix of hexadecimal digits after acc, NaN (-1)
\* when there is none
RECURSIVE ParseHex(_, _)
ParseHex(ccs, acc) ==
    IF ccs = <<>> \/ HexValue(Head(ccs)) < 0 THEN acc
    ELSE ParseHex(Tail(ccs),
                  (IF acc < 0 THEN 0 ELSE acc * 16) + HexValue(Head(ccs)))

parseInt16(ccs) == ParseHex(ccs, 0 - 1)

\* String.fromCharCode(n): NaN gives code unit 0
fromCharCode(n) == IF n < 0 THEN 0 ELSE n % 65536

\* unsafeify, lines 175-191: the loop from 1-based position i on, key being
\* what was decoded so far.  After an escape the body adds 3 or 6 to i and
\* the loop header adds 1 more.
RECURSIVE UnsafeifyFrom(_, _, _)
UnsafeifyFrom(name, i, key) ==
    IF i > Len(name) THEN key
    ELSE IF name[i] # 37 THEN UnsafeifyFrom(name, i + 1, Append(key, name[i]))
    ELSE IF i + 1 <= Len(name) /\ name[i + 1] = 117
    THEN UnsafeifyFrom(name, i + 7,
            Append(key, fromCharCode(parseInt16(Slice(name, i + 2, i + 5)))))
    ELSE UnsafeifyFrom(name, i + 4,
            Append(key, fromCharCode(parseInt16(Slice(name, i + 1, i + 2)))))

\* unsafeify, lines 173-194
unsafeify(name) == UnsafeifyFrom(name, 1, <<>>)

\* a run of the sanitizer on two keys, before anything was computed
SerRun(k, o) ==
    [key |-> k, other |-> o, name |-> <<>>, otherName |-> <<>>,
     back |-> <<>>, pc |-> "input"]

\* both keys are turned into file names
Safeify ==
    /\ ser.pc = "input"
    /\ ser' = [ser EXCEPT !.name = safeify(ser.key),
                          !.otherName = safeify(ser.other),
                          !.pc = "named"]
    /\ UNCHANGED <<local, nonlocal, localPromise, nonlocalPromise, lock, error,
                   cachedSize, calls, budget, faults, adapter>>

\* the file name of the first key is turned back into a key
Unsafeify ==
    /\ ser.pc = "named"
    /\ ser' = [ser EXCEPT !.back = unsafeify(ser.name), !.pc = "back"]
    /\ UNCHANGED <<local, nonlocal, localPromise, nonlocalPromise, lock, error,
                   cachedSize, calls, budget, faults, adapter>>

----------------------------------------------------------------------------
(* The binary serializer: serialize and deserialize of array views.  A      *)
(* buffer is the sequence of its bytes; text is the sequence of its         *)
(* character codes, which for the descriptor are also its UTF-8 bytes.      *)

\* the array kinds serialize recognizes, lines 36-53
TaTypes == {"Uint8Array", "Uint8ClampedArray",
            "Int16Array", "Uint16Array", "Int32Array",
            "Uint32Array", "Float32Array", "Float64Array", "DataView"}

\* the name serialize writes into the descriptor as taType
TaName(kind) ==
    CASE kind = "Uint8Array" ->
            <<85, 105, 110, 116, 56, 65, 114, 114, 97, 121>>
      [] kind = "Uint8ClampedArray" ->
            <<85, 105, 110, 116, 56, 67, 108, 97, 109, 112, 101, 100, 65,
              114, 114, 97, 121>>
      [] kind = "Int16Array" ->
            <<73, 110, 116, 49, 54, 65, 114, 114, 97, 121>>
      [] kind = "Uint16Array" ->
            <<85, 105, 110, 116, 49, 54, 65, 114, 114, 97, 121>>
      [] kind = "Int32Array" ->
            <<73, 110, 116, 51, 50, 65, 114, 114, 97, 121>>
      [] kind = "Uint32Array" ->
            <<85, 105, 110, 116, 51, 50, 65, 114, 114, 97, 121>>
      [] kind = "Float32Array" ->
            <<70, 108, 111, 97, 116, 51, 50, 65, 114, 114, 97, 121>>
      [] kind = "Float64Array" ->
            <<70, 108, 111, 97, 116, 54, 52, 65, 114, 114, 97, 121>>
      [] kind = "DataView" ->
            <<68, 97, 116, 97, 86, 105, 101, 119>>

\* ta.BYTES_PER_ELEMENT, 0 where the constructor has none (DataView)
BYTES_PER_ELEMENT(kind) ==
    CASE kind = "Uint8Array" -> 1
      [] kind = "Uint8ClampedArray" -> 1
      [] kind = "Int16Array" -> 2
      [] kind = "Uint16Array" -> 2
      [] kind = "Int32Array" -> 4
      [] kind = "Uint32Array" -> 4
      [] kind = "Float32Array" -> 4
      [] kind = "Float64Array" -> 8
      [] kind = "DataView" -> 0

\* ta.BYTES_PER_ELEMENT || 1
ElementSize(kind) ==
    IF BYTES_PER_ELEMENT(kind) = 0 THEN 1 ELSE BYTES_PER_ELEMENT(kind)

\* the values a byte takes here
ByteVals == {0, 255}

\* the buffers of exactly n bytes
BytesOfLen(n) == [1..n -> ByteVals]

\* the views serialize is given: a kind and a buffer of at most n bytes whose
\* length is a multiple of the element size
ViewsUpTo(n) ==
    UNION {UNION {{[kind |-> k, data |-> d] : d \in BytesOfLen(m)} :
                     m \in {x \in 0..n : x % ElementSize(k) = 0}} :
              k \in TaTypes}

\* JSON.stringify({type: "TypedArray", taType: ..}) up to the taType name:
\* {"type":"TypedArray","taType":"
DescPrefix ==
    <<123, 34, 116, 121, 112, 101, 34, 58, 34, 84, 121, 112, 101, 100, 65,
      114, 114, 97, 121, 34, 44, 34, 116, 97, 84, 121, 112, 101, 34, 58,
      34>>

\* the rest of the descriptor after the taType name: "}
DescSuffix == <<34, 125>>

\* te.encode(JSON.stringify(desc)), lines 67-68
DescriptorText(kind) == DescPrefix \o TaName(kind) \o DescSuffix

\* the bytes of a Uint32Array element holding n (little-endian)
Uint32Bytes(n) ==
    <<n % 256, (n \div 256) % 256, (n \div 65536) % 256,
      (n \div 16777216) % 256>>

\* the Uint32Array element over the first four bytes of b
Uint32At(b) == b[1] + 256 * b[2] + 65536 * b[3] + 16777216 * b[4]

\* serialize, lines 28-82, for a view: the descriptor length, the
\* descriptor, the bytes of the view
serialize(view) ==
    LET descU8 == DescriptorText(view.kind) IN
    Uint32Bytes(Len(descU8)) \o descU8 \o view.data

\* what deserialize gives: a view, or the error it throws
Thrown(e) == [kind |-> "none", data |-> <<>>, error |-> e]
Returned(k, d) == [kind |-> k, data |-> d, error |-> "none"]

\* new ta(post.buffer, post.byteOffset, length), lines 113-116: a typed
\* array needs a start offset that is a multiple of its element size;
\* .slice(0) copies the view, and a DataView has no slice
NewView(kind, byteOffset, post) ==
    IF BYTES_PER_ELEMENT(kind) # 0 /\ byteOffset % BYTES_PER_ELEMENT(kind) # 0
    THEN Thrown("RangeError: start offset")
    ELSE IF kind = "DataView"
    THEN Thrown("TypeError: slice is not a function")
    ELSE Returned(kind,
             SubSeq(post, 1, (Len(post) \div ElementSize(kind))
                                 * ElementSize(kind)))

\* deserialize, lines 88-134, for a buffer that starts at byte offset 0
deserialize(data) ==
    LET descSize == Uint32At(data)
        descU8 == SubSeq(data, 5, 4 + descSize)
        post == SubSeq(data, 5 + descSize, Len(data))
        known == {k \in TaTypes : DescriptorText(k) = descU8}
    IN  IF known = {} THEN Thrown("Error: Unrecognized TypedArray type")
        ELSE NewView(CHOOSE k \in known : TRUE, 4 + descSize, post)

\* a run of the binary serializer on one view, before anything was computed
BinRun(view) ==
    [view |-> view, serialized |-> <<>>, ret |-> Thrown("none"),
     pc |-> "input"]

Serialize ==
    /\ ser.pc = "input"
    /\ ser' = [ser EXCEPT !.serialized = serialize(ser.view),
                          !.pc = "serialized"]
    /\ UNCHANGED <<local, nonlocal, localPromise, nonlocalPromise, lock, error,
                   cachedSize, calls, budget, faults, adapter>>

Deserialize ==
    /\ ser.pc = "serialized"
    /\ ser' = [ser EXCEPT !.ret = deserialize(ser.serialized),
                          !.pc = "deserialized"]
    /\ UNCHANGED <<local, nonlocal, localPromise, nonlocalPromise, lock, error,
                   cachedSize, calls, budget, faults, adapter>>

----------------------------------------------------------------------------
(* The size estimate of the serializer: approxSize, for any value.  A value *)
(* is a view on a buffer, a buffer, or a string as an example of a JSON     *)
(* value.                                                                    *)

\* an array view of byteLength bytes from byteOffset on a buffer of
\* bufferLength bytes
ViewData(bufferLength, byteOffset, byteLength) ==
    [type |-> "view", bufferLength |-> bufferLength,
     byteOffset |-> byteOffset, byteLength |-> byteLength, text |-> <<>>]

\* an ArrayBuffer of byteLength bytes
BufferData(byteLength) ==
    [type |-> "buffer", bufferLength |-> byteLength, byteOffset |-> 0,
     byteLength |-> byteLength, text |-> <<>>]

\* a string, given by its code points
JsonData(text) ==
    [type |-> "json", bufferLength |-> 0, byteOffset |-> 0, byteLength |-> 0,
     text |-> text]

\* code points of the strings: a, ", LF, U+0001, U+1F600
JsonChars == {97, 34, 10, 1, 128512}

\* the values approxSize is given: the views on buffers of at most n bytes,
\* the buffers of at most n bytes, the strings of at most m code points
DataUpTo(n, m) ==
    UNION {UNION {{ViewData(b, o, l) : l \in 0..(b - o)} : o \in 0..b} :
              b \in 0..n}
    \cup {BufferData(b) : b \in 0..n}
    \cup {JsonData(t) : t \in UNION {[1..l -> JsonChars] : l \in 0..m}}

\* what JSON.stringify writes for one code point of a string
JsonEscape(c) ==
    IF c = 34 THEN <<92, 34>>
    ELSE IF c = 92 THEN <<92, 92>>
    ELSE IF c = 8 THEN <<92, 98>>
    ELSE IF c = 9 THEN <<92, 116>>
    ELSE IF c = 10 THEN <<92, 110>>
    ELSE IF c = 12 THEN <<92, 102>>
    ELSE IF c = 13 THEN <<92, 114>>
    ELSE IF c < 32 THEN <<92, 117>> \o PadStart(ToHex(c), 4)
    ELSE CodeUnits(c)

RECURSIVE JsonEscapes(_)
JsonEscapes(text) ==
    IF text = <<>> THEN <<>>
    ELSE JsonEscape(Head(text)) \o JsonEscapes(Tail(text))

\* JSON.stringify(text), as UTF-16 code units
JSONstringify(text) == <<34>> \o JsonEscapes(text) \o <<34>>

\* approxSize, lines 140-151, for any value
ApproxSizeOf(data) ==
    IF data.type = "view" THEN data.bufferLength
    ELSE IF data.type = "buffer" THEN data.byteLength
    ELSE Len(JSONstringify(data.text))

\* a run of approxSize on two values, before anything was computed
SizeRun(d, o) ==
    [data |-> d, other |-> o, size |-> 0 - 1, otherSize |-> 0 - 1,
     pc |-> "input"]

ApproxSize ==
    /\ ser.pc = "input"
    /\ ser' = [ser EXCEPT !.size = ApproxSizeOf(ser.data),
                          !.otherSize = ApproxSizeOf(ser.other),
                          !.pc = "sized"]
    /\ UNCHANGED <<local, nonlocal, localPromise, nonlocalPromise, lock, error,
                   cachedSize, calls, budget, faults, adapter>>

----------------------------------------------------------------------------
(* The remote directory of an instance: cloudDirectory of src/src/util.ts.  *)
(* Text is the sequence of its character codes.                             *)

\* the text "nonlocalForage"
DefaultRoot ==
    <<110, 111, 110, 108, 111, 99, 97, 108, 70, 111, 114, 97, 103, 101>>

\* the text "default"
DefaultSegment == <<100, 101, 102, 97, 117, 108, 116>>

\* an options field of text that is absent (undefined): no character code
NoText == <<0 - 1>>

\* an options field of backend options that is absent (undefined)
NoBackend ==
    [given |-> FALSE, directory |-> NoText, noName |-> FALSE,
     noStore |-> FALSE]

\* what an options field that is a record of backend options can hold:
\* nothing, or directory (nothing or "d"), noName and noStore
BackendOptions ==
    {NoBackend} \cup
    [given : {TRUE}, directory : {NoText, <<100>>}, noName : BOOLEAN,
     noStore : BOOLEAN]

\* what options.name and options.storeName can hold: nothing, "", "a", "A"
NameOptions == {NoText, <<>>, <<97>>, <<65>>}

\* the options of an instance.  nonlocalforage is the field the README
\* documents and the adapters read; nonlocalForage is the field
\* cloudDirectory reads.
Options ==
    [nonlocalforage : BackendOptions, nonlocalForage : BackendOptions,
     name : NameOptions, storeName : NameOptions]

\* JavaScript truthiness of an options field holding text or nothing
TruthyText(x) == x # NoText /\ x # <<>>

\* `/${x ? ser.safeify(x) : "default"}`
Segment(x) == <<47>> \o (IF TruthyText(x) THEN safeify(x) ELSE DefaultSegment)

\* cloudDirectory, lines 28-39
cloudDirectory(options) ==
    LET nlf == options.nonlocalForage
        root == IF nlf.given /\ TruthyText(nlf.directory)
                THEN nlf.directory ELSE DefaultRoot
        named == root \o Segment(options.name)
    IN  IF ~nlf.given \/ ~nlf.noStore
        THEN named \o Segment(options.storeName)
        ELSE named

\* a call of cloudDirectory, before it has run
DirRun(options) == [options |-> options, path |-> <<>>, pc |-> "input"]

CloudDirectory ==
    /\ ser.pc = "input"
    /\ ser' = [ser EXCEPT !.path = cloudDirectory(ser.options),
                          !.pc = "directory"]
    /\ UNCHANGED <<local, nonlocal, localPromise, nonlocalPromise, lock, error,
                   cachedSize, calls, budget, faults, adapter>>

\* the options of dropInstance when none are passed
NoDrop == [given |-> FALSE, name |-> NoText, storeName |-> NoText]

\* what dropInstance can be passed: nothing, or name and storeName
DropOptions ==
    {NoDrop} \cup [given : {TRUE}, name : NameOptions, storeName : NameOptions]

\* an options object with name and storeName, and the backend options nlf
\* in the field cloudDirectory reads
WithNames(name, storeName, nlf) ==
    [nonlocalforage |-> NoBackend, nonlocalForage |-> nlf, name |-> name,
     storeName |-> storeName]

\* {noStore: true}
NoStoreOnly ==
    [given |-> TRUE, directory |-> NoText, noName |-> FALSE,
     noStore |-> TRUE]

\* dropInstanceDirectory, lines 41-70
dropInstanceDirectory(cloudDir, options) ==
    IF ~options.given THEN cloudDir
    ELSE IF TruthyText(options.name)
    THEN IF TruthyText(options.storeName)
         THEN cloudDirectory(WithNames(options.name, options.storeName,
                                       NoBackend))
         ELSE cloudDirectory(WithNames(options.name, NoText, NoStoreOnly))
    ELSE IF TruthyText(options.storeName)
    THEN cloudDirectory(WithNames(cloudDir, options.storeName, NoBackend))
    ELSE cloudDir

\* an instance with options o on which dropInstance(d) is called, before
\* anything has run
DropRun(o, d) ==
    [options |-> o, drop |-> d, path |-> <<>>, toDelete |-> <<>>,
     pc |-> "input"]

\* dropInstance of an adapter computes the directory to delete from the
\* directory _initStorage computed (fsdh.ts 233, google-drive.ts 661)
DropInstanceDirectory ==
    /\ ser.pc = "directory"
    /\ ser' = [ser EXCEPT !.toDelete = dropInstanceDirectory(ser.path, ser.drop),
                          !.pc = "dropped"]
    /\ UNCHANGED <<local, nonlocal, localPromise, nonlocalPromise, lock, error,
                   cachedSize, calls, budget, faults, adapter>>

----------------------------------------------------------------------------
(* The remote adapters: src/src/dropbox.ts, webdav.ts, fsdh.ts and the      *)
(* second google-drive.ts.  An adapter keeps one promise, x.promise; every  *)
(* operation is                                                             *)
(*     const p = x.promise.catch(console.error).then(async () => {..});     *)
(*     x.promise = p; return p;                                             *)
(* The body of a link awaits one backend call after another; each call in   *)
(* flight is a state, and its return is a step.  The directory of the       *)
(* instance is a set of files; a Google Drive folder may hold several files *)
(* of one name.                                                             *)

AdapterKinds == {"dropbox", "webDAV", "fsdh", "googleDrive"}

\* the error of a backend call on a path that does not exist
NotFound == "not_found"

\* the error of a backend call that fails for any other reason
NetworkError == "network_error"

\* ser.deserialize of a file of no bytes: new Uint32Array(buffer, offset, 1)
RangeErr == "RangeError: Invalid typed array length: 1"

\* ser.deserialize of a text file of another program: JSON.parse of the
\* bytes after the first four
SyntaxErr ==
    "SyntaxError: Unexpected token 'o', \"o, this is\"... is not valid JSON"

\* ser.deserialize of a descriptor whose type is none of the three it knows
UnrecognizedErr == "Error: Unrecognized serialized type"

DecodeErrors == {RangeErr, SyntaxErr, UnrecognizedErr}

\* a file of the directory: the backend's id, the key it is named after,
\* the kind of its content and, for a serialized JSON value, the value
File(id, k, type, data) ==
    [id |-> id, name |-> k, type |-> type, data |-> data]

\* ser.serialize(v) of a JSON value: the descriptor {type: "JSON", data: v}
JsonFile(id, k, v) == File(id, k, "JSON", v)

\* a file of no bytes, as getFileHandle(.., {create: true}) leaves it
EmptyFile(id, k) == File(id, k, "empty", Null)

\* the contents ser.serialize can or cannot have written
FileTypes == {"JSON", "empty", "text", "unknown"}

\* what ser.deserialize throws on the content of file f, "none" when it
\* returns (case "JSON": ret = desc.data)
DecodeFault(f) ==
    CASE f.type = "JSON" -> "none"
      [] f.type = "empty" -> RangeErr
      [] f.type = "text" -> SyntaxErr
      [] OTHER -> UnrecognizedErr

\* the characters of a key
KeyCodes(k) == IF k = "a" THEN <<97>> ELSE IF k = "b" THEN <<98>> ELSE <<>>

\* the key a listing gives for the file named after key k:
\* ser.unsafeify(file.name), the name being ser.safeify(key)
ListedKey(k) == unsafeify(safeify(KeyCodes(k)))

\* the files named after key k
Named(fs, k) == {f \in fs : f.name = k}

TheFile(fs, k) == CHOOSE f \in fs : f.name = k

FileOf(fs, id) == CHOOSE f \in fs : f.id = id

Without(fs, id) == {f \in fs : f.id # id}

\* the orders in which a backend may list the files S
Orders(S) ==
    {s \in [1..Cardinality(S) -> S] :
        \A i, j \in 1..Cardinality(S) : i # j => s[i] # s[j]}

\* the files of S in the order of the listing ord
Restrict(ord, S) == SelectSeq(ord, LAMBDA f : f \in S)

IdsOf(fs) == [n \in 1..Len(fs) |-> fs[n].id]

\* an operation as its invocation leaves it.  key is the key, or the key at
\* which the callback of iterate returns a value; index is the argument of
\* key().  st is the state of the promise the caller holds, link that of
\* the promise stored in x.promise, pc the backend call in flight, todo the
\* ids of the files the body still has to visit or has listed, mine the id
\* of the file an upload created, list the keys listed or visited, count
\* the length.  ran, fault and found are filled in as the body runs: it has
\* started, the last failure one of its calls met ("none": no failure), a
\* file was stored under its key when it started.  behind is the number of
\* operations that had not settled when it was invoked.
NewOp(op, k, v, index) ==
    [op |-> op, key |-> k, val |-> v, index |-> index,
     st |-> "queued", link |-> "queued", pc |-> "none",
     todo |-> <<>>, mine |-> 0, list |-> <<>>, count |-> 0, res |-> Null,
     ran |-> FALSE, fault |-> "none", found |-> FALSE,
     behind |-> Cardinality({j \in 1..Len(adapter.ops) :
                    adapter.ops[j].st \in {"queued", "running"}})]

\* an adapter as _initStorage leaves it: promise: Promise.all([]), the
\* directory created
NewAdapter(kind, files) ==
    [kind |-> kind, files |-> files, dir |-> TRUE,
     nextId |-> Cardinality(files) + 1, ops |-> <<>>]

\* the adapter and the operation after a backend call has returned
Keep(ad, o) == [ad |-> ad, op |-> o]

\* the body goes on to its next backend call
Await(o, pc) == [o EXCEPT !.pc = pc]

\* the body returns v
Resolved(o, v) ==
    [o EXCEPT !.st = "resolved", !.link = "resolved", !.res = v,
              !.pc = "none"]

\* the body throws e
Rejected(o, e) ==
    [o EXCEPT !.st = "rejected", !.link = "rejected", !.res = e,
              !.fault = e, !.pc = "none"]

\* a catch block drops e
Swallowed(o, e) == [o EXCEPT !.fault = e]

\* value = ser.deserialize(..) of file f, inside try { } catch (ex) {} or
\* not
Deserialized(o, f, caught) ==
    LET e == DecodeFault(f) IN
    IF e = "none" THEN Resolved(o, f.data)
    ELSE IF caught THEN Resolved(Swallowed(o, e), Null)
    ELSE Rejected(o, e)

\* the first backend call of the body of an operation
FirstCall(kind, op) ==
    CASE kind = "dropbox" ->
           (CASE op = "getItem" -> "filesDownload"
              [] op = "setItem" -> "filesUpload"
              [] op \in {"removeItem", "clear", "dropInstance"} ->
                    "filesDeleteV2"
              [] op = "refresh" -> "refreshToken"
              [] OTHER -> "filesListFolder")
      [] kind = "webDAV" ->
           (CASE op = "getItem" -> "getFileContents"
              [] op = "setItem" -> "putFileContents"
              [] op = "removeItem" -> "exists"
              [] op \in {"clear", "dropInstance"} -> "deleteFile"
              [] OTHER -> "getDirectoryContents")
      [] kind = "fsdh" ->
           (CASE op \in {"getItem", "setItem"} -> "getFileHandle"
              [] op = "removeItem" -> "removeEntry"
              [] op = "dropInstance" -> "getDirectoryHandle"
              [] OTHER -> "keys.next")
      [] OTHER ->
           (CASE op = "setItem" -> "fetch"
              [] op = "dropInstance" -> "files.delete"
              [] op = "refresh" -> "requestAccessToken"
              [] OTHER -> "files.list")

\* the backend calls that return a listing of the directory
ListingCalls ==
    {"filesListFolder", "getDirectoryContents", "keys.next", "files.list"}

\* getItem of the adapters; r is the outcome of the call in flight, ord the
\* order of the listing it returns.
\* dropbox.ts 200-218, webdav.ts 94-108, fsdh.ts 86-101: download and
\* deserialize inside try { } catch (ex) {}, the value stays null.
\* google-drive.ts 502-515: fileList (337-362) catches every error and
\* returns what it has; getItemById (520-534) is not guarded.
GetItemCall(ad, o, r, ord) ==
    LET fs == ad.files
        missing == ~ad.dir \/ Named(fs, o.key) = {}
        null(e) == Keep(ad, Resolved(Swallowed(o, e), Null))
        open(pc) == Keep(ad, [Await(o, pc) EXCEPT
                                 !.todo = <<TheFile(fs, o.key).id>>])
    IN  CASE ad.kind = "dropbox" ->
               IF r # "ok" THEN null(r)
               ELSE IF o.pc = "filesDownload"
               THEN IF missing THEN null(NotFound) ELSE open("arrayBuffer")
               ELSE Keep(ad, Deserialized(o, FileOf(fs, o.todo[1]), TRUE))
          [] ad.kind = "webDAV" ->
               IF r # "ok" THEN null(r)
               ELSE IF missing THEN null(NotFound)
               ELSE Keep(ad, Deserialized(o, TheFile(fs, o.key), TRUE))
          [] ad.kind = "fsdh" ->
               IF r # "ok" THEN null(r)
               ELSE IF o.pc = "getFileHandle"
               THEN IF missing THEN null(NotFound) ELSE open("getFile")
               ELSE IF o.pc = "getFile" THEN Keep(ad, Await(o, "arrayBuffer"))
               ELSE Keep(ad, Deserialized(o, FileOf(fs, o.todo[1]), TRUE))
          [] OTHER ->
               IF o.pc = "files.list"
               THEN LET files == Restrict(ord, Named(fs, o.key)) IN
                    IF r # "ok" THEN null(r)
                    ELSE IF ~ad.dir \/ files = <<>>
                    THEN Keep(ad, Resolved(o, Null))
                    ELSE Keep(ad, [Await(o, "files.get") EXCEPT
                                      !.todo = <<files[1].id>>])
               ELSE IF r # "ok" THEN Keep(ad, Rejected(o, r))
               ELSE Keep(ad, Deserialized(o, FileOf(fs, o.todo[1]), FALSE))

\* await gapi.client.drive.files.delete({fileId}) of the first file of
\* o.todo has returned (google-drive.ts 567-569 and 586-588), await
\* dir.removeEntry(file) (fsdh.ts 158-159)
DeleteCall(ad, o, r) ==
    LET gone == [ad EXCEPT !.files = Without(@, Head(o.todo))] IN
    IF r # "ok" THEN Keep(ad, Rejected(o, r))
    ELSE IF Tail(o.todo) = <<>> THEN Keep(gone, Resolved(o, Undefined))
    ELSE Keep(gone, [o EXCEPT !.todo = Tail(@)])

\* setItem of the adapters.
\* dropbox.ts 227-243 (filesUpload, overwrite; Dropbox creates the folders
\* of the path), webdav.ts 117-129 (putFileContents): one call.
\* fsdh.ts 110-125: getFileHandle(.., {create: true}), then createWritable,
\* write, close; the content is replaced when the stream is closed.
\* google-drive.ts 540-574: the upload creates a new file, the body of the
\* response is read, fileList finds the files of that name and each other
\* one is deleted.
SetItemCall(ad, o, r, ord) ==
    LET fs == ad.files
        k == o.key
        old == Named(fs, k)
        created(f) == [ad EXCEPT !.files = @ \cup {f}, !.nextId = @ + 1,
                                 !.dir = TRUE]
        put == IF old = {} THEN created(JsonFile(ad.nextId, k, o.val))
               ELSE [ad EXCEPT !.files =
                        {IF f.name = k
                         THEN [f EXCEPT !.type = "JSON", !.data = o.val]
                         ELSE f : f \in fs}]
        fail(e) == Keep(ad, Rejected(o, e))
    IN  CASE ad.kind = "dropbox" ->
               IF r # "ok" THEN fail(r)
               ELSE Keep(put, Resolved(o, Undefined))
          [] ad.kind = "webDAV" ->
               IF r # "ok" THEN fail(r)
               ELSE IF ~ad.dir THEN fail(NotFound)
               ELSE Keep(put, Resolved(o, Undefined))
          [] ad.kind = "fsdh" ->
               IF r # "ok" THEN fail(r)
               ELSE IF o.pc = "getFileHandle"
               THEN IF ~ad.dir THEN fail(NotFound)
                    ELSE Keep(IF old = {}
                              THEN created(EmptyFile(ad.nextId, k)) ELSE ad,
                              Await(o, "createWritable"))
               ELSE IF o.pc = "createWritable" THEN Keep(ad, Await(o, "write"))
               ELSE IF o.pc = "write" THEN Keep(ad, Await(o, "close"))
               ELSE Keep(put, Resolved(o, Undefined))
          [] OTHER ->
               CASE o.pc = "fetch" ->
                      IF r # "ok" THEN fail(r)
                      ELSE IF ~ad.dir THEN Keep(ad, Await(o, "fres.text"))
                      ELSE Keep(created(JsonFile(ad.nextId, k, o.val)),
                                [Await(o, "fres.json") EXCEPT
                                    !.mine = ad.nextId])
                 [] o.pc = "fres.text" ->
                      fail(IF r # "ok" THEN r ELSE NotFound)
                 [] o.pc = "fres.json" ->
                      IF r # "ok" THEN fail(r)
                      ELSE Keep(ad, Await(o, "files.list"))
                 [] o.pc = "files.list" ->
                      LET others == SelectSeq(IdsOf(Restrict(ord, old)),
                                              LAMBDA id : id # o.mine)
                      IN  IF r # "ok"
                          THEN Keep(ad, Resolved(Swallowed(o, r), Undefined))
                          ELSE IF others = <<>>
                          THEN Keep(ad, Resolved(o, Undefined))
                          ELSE Keep(ad, [Await(o, "files.delete") EXCEPT
                                            !.todo = others])
                 [] OTHER -> DeleteCall(ad, o, r)

\* removeItem of the adapters.
\* dropbox.ts 252-259: filesDeleteV2, not guarded.
\* webdav.ts 138-146: if (await dav.exists(name)) await dav.deleteFile(name).
\* fsdh.ts 134-140: removeEntry inside try { } catch (ex) {}.
\* google-drive.ts 583-593: fileList, then files.delete of each file found;
\* clear (598-603) is removeItem of the name "", which lists every file.
RemoveItemCall(ad, o, r, ord) ==
    LET fs == ad.files
        mine == IF o.op = "clear" THEN fs ELSE Named(fs, o.key)
        missing == ~ad.dir \/ mine = {}
        deleted == [ad EXCEPT !.files = fs \ mine]
        fail(e) == Keep(ad, Rejected(o, e))
        done(e) == Keep(ad, Resolved(Swallowed(o, e), Undefined))
    IN  CASE ad.kind = "dropbox" ->
               IF r # "ok" THEN fail(r)
               ELSE IF missing THEN fail(NotFound)
               ELSE Keep(deleted, Resolved(o, Undefined))
          [] ad.kind = "webDAV" ->
               IF r # "ok" THEN fail(r)
               ELSE IF o.pc = "exists"
               THEN IF missing THEN Keep(ad, Resolved(o, Undefined))
                    ELSE Keep(ad, Await(o, "deleteFile"))
               ELSE Keep(deleted, Resolved(o, Undefined))
          [] ad.kind = "fsdh" ->
               IF r # "ok" THEN done(r)
               ELSE IF missing THEN done(NotFound)
               ELSE Keep(deleted, Resolved(o, Undefined))
          [] OTHER ->
               IF o.pc = "files.list"
               THEN LET files == IdsOf(Restrict(ord, mine)) IN
                    IF r # "ok" THEN done(r)
                    ELSE IF ~ad.dir \/ files = <<>>
                    THEN Keep(ad, Resolved(o, Undefined))
                    ELSE Keep(ad, [Await(o, "files.delete") EXCEPT
                                      !.todo = files])
               ELSE DeleteCall(ad, o, r)

\* await it.next() of this._fsdh.dir.keys() has returned: the next file of
\* the listing, or done.  atEnd is what the body does after the loop.
NextCall(ad, o, r, ord, atEnd) ==
    LET rest == SelectSeq(ord, LAMBDA f :
                    \A n \in 1..Len(o.todo) : o.todo[n] # f.id)
    IN  IF r # "ok" THEN Keep(ad, Rejected(o, r))
        ELSE IF ~ad.dir THEN Keep(ad, Rejected(o, NotFound))
        ELSE IF rest # <<>>
        THEN Keep(ad, [o EXCEPT !.todo = Append(@, rest[1].id),
                                !.list = Append(@, ListedKey(rest[1].name))])
        ELSE atEnd

\* clear of the adapters.
\* dropbox.ts 268-277: filesDeleteV2 of the directory, filesCreateFolderV2.
\* webdav.ts 155-160: deleteFile of the directory, createDirectory.
\* fsdh.ts 149-161: the names are listed, then removeEntry of each.
\* google-drive.ts 598-603: removeItem.call(this, "", callback).
ClearCall(ad, o, r, ord) ==
    LET fail(e) == Keep(ad, Rejected(o, e))
        create == IF ad.kind = "dropbox" THEN "filesCreateFolderV2"
                  ELSE "createDirectory"
    IN  CASE ad.kind \in {"dropbox", "webDAV"} ->
               IF r # "ok" THEN fail(r)
               ELSE IF o.pc = create
               THEN Keep([ad EXCEPT !.dir = TRUE], Resolved(o, Undefined))
               ELSE IF ~ad.dir THEN fail(NotFound)
               ELSE Keep([ad EXCEPT !.files = {}, !.dir = FALSE],
                         Await(o, create))
          [] ad.kind = "fsdh" ->
               IF o.pc = "keys.next"
               THEN NextCall(ad, o, r, ord,
                       IF o.todo = <<>> THEN Keep(ad, Resolved(o, Undefined))
                       ELSE Keep(ad, Await(o, "removeEntry")))
               ELSE DeleteCall(ad, o, r)
          [] OTHER -> RemoveItemCall(ad, o, r, ord)

\* the directories above the instance's own in "nonlocalForage/name/store"
\* (fsdh.ts 234-237: pathParts.slice(0, pathParts.length - 1))
ParentParts == 2

\* dropInstance() of the adapters, no options given: the directory to delete
\* is the instance's own (util.ts 69).
\* dropbox.ts 342-352: filesDeleteV2.  webdav.ts 219-224: deleteFile.
\* fsdh.ts 231-240: getDirectoryHandle of each parent, then removeEntry.
\* google-drive.ts 658-684: files.delete of dirId.
DropInstanceCall(ad, o, r) ==
    IF r # "ok" THEN Keep(ad, Rejected(o, r))
    ELSE IF o.pc = "getDirectoryHandle"
    THEN Keep(ad, IF o.count + 1 < ParentParts
                  THEN [o EXCEPT !.count = @ + 1]
                  ELSE Await(o, "removeEntry"))
    ELSE IF ~ad.dir THEN Keep(ad, Rejected(o, NotFound))
    ELSE Keep([ad EXCEPT !.files = {}, !.dir = FALSE],
              Resolved(o, Undefined))

\* keys, length and key of the adapters return from their listing.
\* key (dropbox.ts 300-311): the promise of keys is the link; the caller's
\* promise is rejected when the list has no entry at the index.
Listed(ad, o) ==
    IF o.op = "key" /\ o.index >= Len(o.list)
    THEN Keep(ad, [Rejected(o, KeyError) EXCEPT !.link = "resolved"])
    ELSE Keep(ad, [Resolved(o, Undefined) EXCEPT !.count = Len(o.list)])

\* keys, length, key and iterate of dropbox.ts 177-194 and 283-329,
\* webdav.ts 74-88 and 166-206, fsdh.ts 63-80 and 167-218: one listing call,
\* or one it.next() per file; iterate ignores what the callback returns.
\* google-drive.ts 605-645: fileList, an error giving an empty list.
KeysCall(ad, o, r, ord) ==
    LET all(files) == [o EXCEPT !.list =
                          [n \in 1..Len(files) |-> ListedKey(files[n].name)]]
    IN  CASE ad.kind \in {"dropbox", "webDAV"} ->
               IF r # "ok" THEN Keep(ad, Rejected(o, r))
               ELSE IF ~ad.dir THEN Keep(ad, Rejected(o, NotFound))
               ELSE Listed(ad, all(ord))
          [] ad.kind = "fsdh" -> NextCall(ad, o, r, ord, Listed(ad, o))
          [] OTHER ->
               IF r # "ok" THEN Listed(ad, Swallowed(o, r))
               ELSE IF ~ad.dir THEN Listed(ad, o)
               ELSE Listed(ad, all(ord))

\* iterate of google-drive.ts 482-492: fileList, then for each file
\* getItemById and the callback, until the callback returns a value
IterateCall(ad, o, r, ord) ==
    IF ad.kind # "googleDrive" THEN KeysCall(ad, o, r, ord)
    ELSE IF o.pc = "files.list"
    THEN IF r # "ok" THEN Keep(ad, Resolved(Swallowed(o, r), Undefined))
         ELSE IF ~ad.dir \/ ord = <<>> THEN Keep(ad, Resolved(o, Undefined))
         ELSE Keep(ad, [Await(o, "files.get") EXCEPT !.todo = IdsOf(ord)])
    ELSE LET f == FileOf(ad.files, Head(o.todo))
             seen == [o EXCEPT !.list = Append(@, ListedKey(f.name)),
                               !.todo = Tail(@)]
         IN  IF r # "ok" THEN Keep(ad, Rejected(o, r))
             ELSE IF DecodeFault(f) # "none"
             THEN Keep(ad, Rejected(o, DecodeFault(f)))
             ELSE IF f.name = o.key \/ seen.todo = <<>>
             THEN Keep(ad, Resolved(seen, Undefined))
             ELSE Keep(ad, seen)

\* the token refresh a timer chains on x.promise.
\* dropbox.ts 152-168: oauth2Client.refreshToken.
\* google-drive.ts 430-450: requestAccessToken; when it fails, the transient
\* activation and requestAccessToken again.
RefreshCall(ad, o, r) ==
    IF ad.kind = "dropbox" \/ o.pc = "requestAccessToken.again"
    THEN IF r # "ok" THEN Keep(ad, Rejected(o, r))
         ELSE Keep(ad, Resolved(o, Undefined))
    ELSE IF o.pc = "requestAccessToken"
    THEN IF r # "ok"
         THEN Keep(ad, Await(Swallowed(o, r), "transientActivation"))
         ELSE Keep(ad, Resolved(o, Undefined))
    ELSE IF r # "ok" THEN Keep(ad, Rejected(o, r))
         ELSE Keep(ad, Await(o, "requestAccessToken.again"))

\* the body of the link of operation o, from the return of the backend call
\* in flight to its next await or its end
Body(ad, o, r, ord) ==
    CASE o.op = "getItem" -> GetItemCall(ad, o, r, ord)
      [] o.op = "setItem" -> SetItemCall(ad, o, r, ord)
      [] o.op = "removeItem" -> RemoveItemCall(ad, o, r, ord)
      [] o.op = "clear" -> ClearCall(ad, o, r, ord)
      [] o.op = "dropInstance" -> DropInstanceCall(ad, o, r)
      [] o.op = "iterate" -> IterateCall(ad, o, r, ord)
      [] o.op = "refresh" -> RefreshCall(ad, o, r)
      [] OTHER -> KeysCall(ad, o, r, ord)

\* the outcomes a backend call can have now
BackendOutcomes == {"ok"} \cup (IF faults > 0 THEN {NetworkError} ELSE {})

\* an operation is invoked: its link is chained to x.promise and becomes
\* x.promise
Invoke(op, k, v, index) ==
    /\ budget > 0
    /\ budget' = budget - 1
    /\ adapter' = [adapter EXCEPT
          !.ops = Append(adapter.ops, NewOp(op, k, v, index))]
    /\ UNCHANGED <<local, nonlocal, localPromise, nonlocalPromise, lock, error,
                   cachedSize, calls, faults, ser>>

RemoteGetItem(k) == Invoke("getItem", k, Null, 0)

RemoteSetItem(k, v) == Invoke("setItem", k, v, 0)

RemoteRemoveItem(k) == Invoke("removeItem", k, Null, 0)

RemoteClear == Invoke("clear", Null, Null, 0)

RemoteDropInstance == Invoke("dropInstance", Null, Null, 0)

RemoteKeys == Invoke("keys", Null, Null, 0)

RemoteLength == Invoke("length", Null, Null, 0)

RemoteKey(index) == Invoke("key", Null, Null, index)

\* stop: the key at which the callback returns a value, Null for none
RemoteIterate(stop) == Invoke("iterate", stop, Null, 0)

\* the timer of dropbox.ts 168 or google-drive.ts 450 fires
RemoteRefresh ==
    /\ adapter.kind \in {"dropbox", "googleDrive"}
    /\ Invoke("refresh", Null, Null, 0)

\* a mutant of PromiseCaught: the link is chained without the catch
PromiseCaught_uncaught(st) == st

\* x.promise.catch(console.error): resolved, however x.promise has settled
PromiseCaught(st) == "resolved"

\* .then(async () => {..}): the link of an operation starts when the promise
\* it was chained to has settled, and runs to its first backend call
RemoteStart ==
    \E i \in 1..Len(adapter.ops) :
        LET o == adapter.ops[i]
            prev == IF i = 1 THEN [link |-> "resolved", res |-> Null]
                    ELSE [link |-> adapter.ops[i - 1].link,
                          res |-> adapter.ops[i - 1].res]
        IN  /\ o.st = "queued"
            /\ prev.link \in {"resolved", "rejected"}
            /\ adapter' = [adapter EXCEPT !.ops[i] =
                  IF PromiseCaught(prev.link) = "resolved"
                  THEN [o EXCEPT !.st = "running", !.link = "running",
                                 !.ran = TRUE,
                                 !.pc = FirstCall(adapter.kind, o.op),
                                 !.found = /\ adapter.dir
                                           /\ Named(adapter.files, o.key) # {}]
                  ELSE [o EXCEPT !.st = "rejected", !.link = "rejected",
                                 !.res = prev.res]]
            /\ UNCHANGED <<local, nonlocal, localPromise, nonlocalPromise,
                           lock, error, cachedSize, calls, budget, faults,
                           ser>>

\* the backend call in flight returns, and the body runs to its next await
\* or to its end
BackendReturn ==
    \E i \in 1..Len(adapter.ops) :
        LET o == adapter.ops[i] IN
        /\ o.st = "running"
        /\ \E r \in BackendOutcomes,
              ord \in IF o.pc \in ListingCalls THEN Orders(adapter.files)
                      ELSE {<<>>} :
              LET out == Body(adapter, o, r, ord) IN
              /\ adapter' = [out.ad EXCEPT !.ops[i] = out.op]
              /\ faults' = IF r = "ok" THEN faults ELSE faults - 1
        /\ UNCHANGED <<local, nonlocal, localPromise, nonlocalPromise,
                       lock, error, cachedSize, calls, budget, ser>>

----------------------------------------------------------------------------
(* Records *)

\* a link of a chain
Step(c, kind, k, v, pc) ==
    [call |-> c, kind |-> kind, key |-> k, val |-> v, pc |-> pc]

Settled(c) == c.st # "pending"

SettledCalls == {i \in 1..Len(calls) : Settled(calls[i])}

\* a migration step has failed before now
MigFailed == \E i \in 1..Len(calls) : calls[i].mig = "failed"

\* a public call as the synchronous prefix leaves it
NewCall(op, k, v, arg, st, res, lp, nlp) ==
    [op |-> op, key |-> k, val |-> v, arg |-> arg, st |-> st, res |-> res,
     lp |-> lp, nlp |-> nlp, lval |-> <<>>, nlval |-> <<>>, mig |-> "none",
     cb |-> <<>>,
     before |-> SettledCalls, errAtCall |-> error, sawMigFail |-> MigFailed,
     quiet |-> (localPromise = <<>> /\ nonlocalPromise = <<>>)]

\* if (cf.error) throw cf.error;
FailFast(op, k, v, arg) ==
    NewCall(op, k, v, arg, "rejected", error, "none", "none")

\* the returned promise resolves to value; the callback is not invoked
Return(c, value) == [c EXCEPT !.st = "resolved", !.res = value]

\* if (callback) callback(value); return value;
Resolve(c, value) ==
    [c EXCEPT !.st = "resolved", !.res = value, !.cb = Append(c.cb, value)]
Reject(c, e) == [c EXCEPT !.st = "rejected", !.res = e]

\* the outcomes a store call can have now: "ok" or a rejection value
Outcomes == {"ok"} \cup (IF faults > 0 THEN Errs ELSE {})

\* a mutant of KeysResult: the nonlocal key list comes first
KeysResult_remoteFirst(c) ==
    LET ks == c.nlval \o c.lval IN
    IF c.op = "keys" THEN Return(c, ks)
    ELSE IF c.op = "length" THEN Resolve(c, Len(ks))
    ELSE IF c.arg + 1 <= Len(ks) /\ ks[c.arg + 1] # EmptyKey
         THEN Resolve(c, ks[c.arg + 1])
    ELSE Reject(c, KeyError)

\* what keys(), length() and key(index) make of the two key lists: keys
\* returns the concatenation and never invokes its callback; key(index)
\* tests the entry for truthiness (if (key)), so an absent entry and the
\* empty string both throw
KeysResult(c) ==
    LET ks == c.lval \o c.nlval IN
    IF c.op = "keys" THEN Return(c, ks)
    ELSE IF c.op = "length" THEN Resolve(c, Len(ks))
    ELSE IF c.arg + 1 <= Len(ks) /\ ks[c.arg + 1] # EmptyKey
         THEN Resolve(c, ks[c.arg + 1])
    ELSE Reject(c, KeyError)

\* await lp; await nlp;  (removeItem, clear, dropInstance, keys)
AwaitBoth(c) ==
    IF c.st # "pending" \/ c.lp = "wait" THEN c
    ELSE IF c.lp # "ok" THEN Reject(c, c.lp)
    ELSE IF c.nlp = "wait" THEN c
    ELSE IF c.nlp # "ok" THEN Reject(c, c.nlp)
    ELSE IF c.op \in {"keys", "length", "key"} THEN KeysResult(c)
    ELSE Resolve(c, Undefined)

----------------------------------------------------------------------------
(* Construction *)

\* the cache as _initStorage leaves it
EngineInit(b, f) ==
    /\ local = EmptyStore
    /\ nonlocal = EmptyStore
    /\ localPromise = <<>>
    /\ nonlocalPromise = <<>>
    /\ lock = [k \in AllKeys |-> 0]
    /\ error = Null
    /\ cachedSize = 0
    /\ calls = <<>>
    /\ budget = b
    /\ faults = f

\* the cache, no adapter instance under study on its own
CacheInit(b, f) ==
    /\ EngineInit(b, f)
    /\ adapter = NewAdapter("none", {})

\* the cache, the sanitizer not under study
InitWith(b, f) ==
    /\ CacheInit(b, f)
    /\ ser = SerRun(<<>>, <<>>)

Init == InitWith(MaxCalls, MaxFaults)

----------------------------------------------------------------------------
(* Public operations: the synchronous prefix, up to the first await *)

NextId == Len(calls) + 1

\* getItem, lines 86-97: latch check, then the local read joins localPromise
getItem(k) ==
    /\ budget > 0
    /\ budget' = budget - 1
    /\ IF Latched
       THEN /\ calls' = Append(calls, FailFast("getItem", k, Null, 0))
            /\ UNCHANGED localPromise
       ELSE /\ calls' = Append(calls,
                  NewCall("getItem", k, Null, 0, "pending", Null, "wait", "none"))
            /\ localPromise' = Append(localPromise,
                  Step(NextId, "getItem", k, Null, "start"))
    /\ UNCHANGED <<adapter, ser, local, nonlocal, nonlocalPromise, lock, error, cachedSize,
                   faults>>

\* a mutant of setItem: the size is accounted before the latch is checked
setItem_sizeFirst(k, v) ==
    /\ budget > 0
    /\ budget' = budget - 1
    /\ cachedSize' = cachedSize + approxSize(v)
    /\ IF Latched
       THEN /\ calls' = Append(calls, FailFast("setItem", k, v, 0))
            /\ UNCHANGED localPromise
       ELSE /\ calls' = Append(calls,
                  NewCall("setItem", k, v, 0, "pending", Null, "wait", "none"))
            /\ localPromise' = Append(localPromise,
                  Step(NextId, "setItem", k, v, "start"))
    /\ UNCHANGED <<adapter, ser, local, nonlocal, nonlocalPromise, lock, error, faults>>

\* setItem, lines 114-131: latch check, size accounting, then the locked
\* local write joins localPromise
setItem(k, v) ==
    /\ budget > 0
    /\ budget' = budget - 1
    /\ IF Latched
       THEN /\ calls' = Append(calls, FailFast("setItem", k, v, 0))
            /\ UNCHANGED <<localPromise, cachedSize>>
       ELSE /\ cachedSize' = cachedSize + approxSize(v)
            /\ calls' = Append(calls,
                  NewCall("setItem", k, v, 0, "pending", Null, "wait", "none"))
            /\ localPromise' = Append(localPromise,
                  Step(NextId, "setItem", k, v, "start"))
    /\ UNCHANGED <<adapter, ser, local, nonlocal, nonlocalPromise, lock, error, faults>>

\* a mutant of BothChains: the new links are put in front of the links that
\* are already queued
BothChains_prepend(op, k, arg) ==
    /\ budget > 0
    /\ budget' = budget - 1
    /\ IF Latched
       THEN /\ calls' = Append(calls, FailFast(op, k, Null, arg))
            /\ UNCHANGED <<localPromise, nonlocalPromise>>
       ELSE LET kind == IF op \in {"length", "key"} THEN "keys" ELSE op IN
            /\ calls' = Append(calls,
                  NewCall(op, k, Null, arg, "pending", Null, "wait", "wait"))
            /\ localPromise' = <<Step(NextId, kind, k, Null, "start")>>
                                   \o localPromise
            /\ nonlocalPromise' = <<Step(NextId, kind, k, Null, "start")>>
                                      \o nonlocalPromise
    /\ UNCHANGED <<adapter, ser, local, nonlocal, lock, error, cachedSize, faults>>

\* removeItem, clear, dropInstance, keys (and length, key through keys):
\* latch check, then one link joins each chain before anything is awaited
BothChains(op, k, arg) ==
    /\ budget > 0
    /\ budget' = budget - 1
    /\ IF Latched
       THEN /\ calls' = Append(calls, FailFast(op, k, Null, arg))
            /\ UNCHANGED <<localPromise, nonlocalPromise>>
       ELSE LET kind == IF op \in {"length", "key"} THEN "keys" ELSE op IN
            /\ calls' = Append(calls,
                  NewCall(op, k, Null, arg, "pending", Null, "wait", "wait"))
            /\ localPromise' = Append(localPromise,
                  Step(NextId, kind, k, Null, "start"))
            /\ nonlocalPromise' = Append(nonlocalPromise,
                  Step(NextId, kind, k, Null, "start"))
    /\ UNCHANGED <<adapter, ser, local, nonlocal, lock, error, cachedSize, faults>>

removeItem(k) == BothChains("removeItem", k, 0)

clear == BothChains("clear", Null, 0)

dropInstance == BothChains("dropInstance", Null, 0)

keys == BothChains("keys", Null, 0)

length == BothChains("length", Null, 0)

key(index) == BothChains("key", Null, index)

\* iterate, lines 66-80: latch check, then one link on nonlocalPromise that
\* iterates the local store and then the nonlocal store.  stop is the key at
\* which the visitor returns a defined value (Null: it never does).
iterate(stop) ==
    /\ budget > 0
    /\ budget' = budget - 1
    /\ IF Latched
       THEN /\ calls' = Append(calls, FailFast("iterate", stop, Null, 0))
            /\ UNCHANGED nonlocalPromise
       ELSE /\ calls' = Append(calls,
                  NewCall("iterate", stop, Null, 0, "pending", Null, "none", "wait"))
            /\ nonlocalPromise' = Append(nonlocalPromise,
                  Step(NextId, "iterate", stop, Null, "local"))
    /\ UNCHANGED <<adapter, ser, local, nonlocal, localPromise, lock, error, cachedSize,
                   faults>>

----------------------------------------------------------------------------
(* The per-key lock *)

\* a mutant of LockFree: the local write does not wait for the key's lock
LockFree_ignored(k) == TRUE

\* cf.local.lock(key, ..) of a local write or delete can be granted.  The
\* order in which waiters are granted the lock is the lock's own; a local
\* link takes and releases it within its action, a migration holds it from
\* MigrateStart until its lock callback ends or throws.
LockFree(k) == lock[k] = 0

----------------------------------------------------------------------------
(* Links of cf.localPromise.  The head link runs; with it run the          *)
(* .catch(x => cf.error = x) of its chain and the continuation of the      *)
(* operation awaiting it.                                                  *)

LocalHead(kind) ==
    /\ localPromise # <<>>
    /\ Head(localPromise).kind = kind

\* cf.error after a link settled with outcome r
\* a mutant of Caught: the latch is written when the link completes, with
\* its outcome, failed or not
Caught_always(r) == r

Caught(r) == IF r = "ok" THEN error ELSE r

Spent(r) == IF r = "ok" THEN faults ELSE faults - 1

\* getItem, lines 94-107: the local read; a null value sends the operation
\* to the nonlocal chain
LocalGetItem ==
    /\ LocalHead("getItem")
    /\ LET s == Head(localPromise)
           c == calls[s.call]
       IN  \E r \in Outcomes :
           /\ localPromise' = Tail(localPromise)
           /\ error' = Caught(r)
           /\ faults' = Spent(r)
           /\ IF r # "ok"
              THEN /\ calls' = [calls EXCEPT ![s.call] =
                                  Reject([c EXCEPT !.lp = r], r)]
                   /\ UNCHANGED nonlocalPromise
              ELSE IF local[s.key] # Null
              THEN /\ calls' = [calls EXCEPT ![s.call] =
                                  Resolve([c EXCEPT !.lp = "ok"], local[s.key])]
                   /\ UNCHANGED nonlocalPromise
              ELSE /\ calls' = [calls EXCEPT ![s.call] =
                                  [c EXCEPT !.lp = "ok", !.nlp = "wait"]]
                   /\ nonlocalPromise' = Append(nonlocalPromise,
                          Step(s.call, "getItem", s.key, Null, "start"))
    /\ UNCHANGED <<adapter, ser, local, nonlocal, lock, cachedSize, budget>>

\* setItem, lines 125-145: the local write under the key's lock; when it
\* succeeded the operation appends its migration to nonlocalPromise and
\* resolves
LocalSetItem ==
    /\ LocalHead("setItem")
    /\ LET s == Head(localPromise)
           c == calls[s.call]
       IN  /\ LockFree(s.key)
           /\ \E r \in Outcomes :
              /\ localPromise' = Tail(localPromise)
              /\ error' = Caught(r)
              /\ faults' = Spent(r)
              /\ IF r # "ok"
                 THEN /\ calls' = [calls EXCEPT ![s.call] =
                                     Reject([c EXCEPT !.lp = r], r)]
                      /\ UNCHANGED <<local, nonlocalPromise>>
                 ELSE /\ local' = [local EXCEPT ![s.key] = s.val]
                      /\ calls' = [calls EXCEPT ![s.call] =
                             Resolve([c EXCEPT !.lp = "ok", !.mig = "queued"],
                                     Undefined)]
                      /\ nonlocalPromise' = Append(nonlocalPromise,
                             Step(s.call, "migrate", s.key, Null, "start"))
    /\ UNCHANGED <<adapter, ser, nonlocal, lock, cachedSize, budget>>

\* removeItem, lines 156-161: the local delete under the key's lock
LocalRemoveItem ==
    /\ LocalHead("removeItem")
    /\ LET s == Head(localPromise)
           c == calls[s.call]
       IN  /\ LockFree(s.key)
           /\ \E r \in Outcomes :
              /\ localPromise' = Tail(localPromise)
              /\ error' = Caught(r)
              /\ faults' = Spent(r)
              /\ local' = IF r = "ok" THEN [local EXCEPT ![s.key] = Null]
                          ELSE local
              /\ calls' = [calls EXCEPT ![s.call] =
                              AwaitBoth([c EXCEPT !.lp = r])]
    /\ UNCHANGED <<adapter, ser, nonlocal, nonlocalPromise, lock, cachedSize, budget>>

\* clear, lines 182-185, and dropInstance, lines 250-253: the local store is
\* emptied, without any lock
LocalClear ==
    /\ localPromise # <<>>
    /\ Head(localPromise).kind \in {"clear", "dropInstance"}
    /\ LET s == Head(localPromise)
           c == calls[s.call]
       IN  \E r \in Outcomes :
           /\ localPromise' = Tail(localPromise)
           /\ error' = Caught(r)
           /\ faults' = Spent(r)
           /\ local' = IF r = "ok" THEN EmptyStore ELSE local
           /\ calls' = [calls EXCEPT ![s.call] =
                           AwaitBoth([c EXCEPT !.lp = r])]
    /\ UNCHANGED <<adapter, ser, nonlocal, nonlocalPromise, lock, cachedSize, budget>>

\* keys, lines 229-232: the local key list
LocalKeys ==
    /\ LocalHead("keys")
    /\ LET s == Head(localPromise)
           c == calls[s.call]
       IN  \E r \in Outcomes :
           /\ localPromise' = Tail(localPromise)
           /\ error' = Caught(r)
           /\ faults' = Spent(r)
           /\ calls' = [calls EXCEPT ![s.call] =
                 AwaitBoth([c EXCEPT !.lp = r,
                      !.lval = IF r = "ok" THEN KeysOf(local) ELSE <<>>])]
    /\ UNCHANGED <<adapter, ser, local, nonlocal, nonlocalPromise, lock, cachedSize, budget>>

----------------------------------------------------------------------------
(* Links of cf.nonlocalPromise *)

\* a mutant of NonlocalHead: a link of the nonlocal chain waits for the local
\* chain to drain
NonlocalHead_afterLocal(kind, pc) ==
    /\ nonlocalPromise # <<>>
    /\ Head(nonlocalPromise).kind = kind
    /\ Head(nonlocalPromise).pc = pc
    /\ localPromise = <<>>

NonlocalHead(kind, pc) ==
    /\ nonlocalPromise # <<>>
    /\ Head(nonlocalPromise).kind = kind
    /\ Head(nonlocalPromise).pc = pc

\* getItem, lines 102-106: the nonlocal read
NonlocalGetItem ==
    /\ NonlocalHead("getItem", "start")
    /\ LET s == Head(nonlocalPromise)
           c == calls[s.call]
       IN  \E r \in Outcomes :
           /\ nonlocalPromise' = Tail(nonlocalPromise)
           /\ error' = Caught(r)
           /\ faults' = Spent(r)
           /\ calls' = [calls EXCEPT ![s.call] =
                 IF r = "ok" THEN Resolve([c EXCEPT !.nlp = "ok"], nonlocal[s.key])
                 ELSE Reject([c EXCEPT !.nlp = r], r)]
    /\ UNCHANGED <<adapter, ser, local, nonlocal, localPromise, lock, cachedSize, budget>>

\* a mutant of MigrationValue: the value is the one the setItem call passed
MigrationValue_captured(s) == s.val

\* line 136: the value the migration uploads is the one the local store
\* holds when the migration runs
MigrationValue(s) == local[s.key]

\* a mutant of Evict: the migration leaves the local entry in place
Evict_kept(k) == local

\* line 139, await cf.local.localforage.removeItem(key): the migration
\* deletes the local entry of the key
Evict(k) == [local EXCEPT ![k] = Null]

\* a mutant of Evicted: the size is subtracted only when a value was uploaded
Evicted_uploadedOnly(c, value) ==
    IF value = Null THEN cachedSize ELSE cachedSize - approxSize(c.val)

\* line 141, cf.cachedSize -= sz: the estimate taken when setItem was
\* invoked is subtracted, whatever value the migration found
Evicted(c, value) == cachedSize - approxSize(c.val)

\* setItem, lines 134-135: the migration link runs and cf.local.lock grants
\* it the key's lock; its callback issues the local read of line 136
MigrateStart ==
    /\ NonlocalHead("migrate", "start")
    /\ LET s == Head(nonlocalPromise)
       IN  /\ lock[s.key] = 0
           /\ lock' = [lock EXCEPT ![s.key] = s.call]
           /\ nonlocalPromise' = <<[s EXCEPT !.pc = "read"]>>
                                 \o Tail(nonlocalPromise)
           /\ calls' = [calls EXCEPT ![s.call].mig = "read"]
    /\ UNCHANGED <<adapter, ser, local, nonlocal, localPromise, error,
                   cachedSize, budget, faults>>

\* setItem, lines 136-139: cf.local.localforage.getItem(key) returns under
\* the lock.  A value goes to cf.nonlocal.setItem (line 138); with null the
\* upload is skipped and the local delete of line 139 is issued; a rejection
\* leaves the lock callback, which releases the lock, and is caught at line
\* 142.
MigrateRead ==
    /\ NonlocalHead("migrate", "read")
    /\ LET s == Head(nonlocalPromise)
           value == MigrationValue(s)
       IN  \E r \in Outcomes :
           /\ error' = Caught(r)
           /\ faults' = Spent(r)
           /\ IF r # "ok"
              THEN /\ nonlocalPromise' = Tail(nonlocalPromise)
                   /\ lock' = [lock EXCEPT ![s.key] = 0]
                   /\ calls' = [calls EXCEPT ![s.call].mig = "failedLocal"]
              ELSE /\ nonlocalPromise' =
                         <<[s EXCEPT !.pc = IF value = Null THEN "evict"
                                            ELSE "upload",
                                     !.val = value]>>
                         \o Tail(nonlocalPromise)
                   /\ calls' = [calls EXCEPT ![s.call].mig =
                                   IF value = Null THEN "evict" ELSE "upload"]
                   /\ UNCHANGED lock
    /\ UNCHANGED <<adapter, ser, local, nonlocal, localPromise, cachedSize,
                   budget>>

\* setItem, lines 138-139: cf.nonlocal.setItem(key, value) returns under the
\* lock; the value is then in both stores and the local delete of line 139
\* is issued.  A rejection releases the lock and is caught at line 142.
MigrateUpload ==
    /\ NonlocalHead("migrate", "upload")
    /\ LET s == Head(nonlocalPromise)
       IN  \E r \in Outcomes :
           /\ error' = Caught(r)
           /\ faults' = Spent(r)
           /\ IF r # "ok"
              THEN /\ nonlocalPromise' = Tail(nonlocalPromise)
                   /\ lock' = [lock EXCEPT ![s.key] = 0]
                   /\ calls' = [calls EXCEPT ![s.call].mig = "failed"]
                   /\ UNCHANGED nonlocal
              ELSE /\ nonlocal' = [nonlocal EXCEPT ![s.key] = s.val]
                   /\ nonlocalPromise' = <<[s EXCEPT !.pc = "evict"]>>
                                         \o Tail(nonlocalPromise)
                   /\ calls' = [calls EXCEPT ![s.call].mig = "evict"]
                   /\ UNCHANGED lock
    /\ UNCHANGED <<adapter, ser, local, localPromise, cachedSize, budget>>

\* setItem, lines 139-142: cf.local.localforage.removeItem(key) returns; the
\* lock callback ends, the lock is released and the size estimate is
\* subtracted (line 141).  A rejection releases the lock, skips line 141 and
\* is caught at line 142.
MigrateEvict ==
    /\ NonlocalHead("migrate", "evict")
    /\ LET s == Head(nonlocalPromise)
           c == calls[s.call]
       IN  \E r \in Outcomes :
           /\ nonlocalPromise' = Tail(nonlocalPromise)
           /\ lock' = [lock EXCEPT ![s.key] = 0]
           /\ error' = Caught(r)
           /\ faults' = Spent(r)
           /\ local' = IF r = "ok" THEN Evict(s.key) ELSE local
           /\ cachedSize' = IF r = "ok" THEN Evicted(c, s.val)
                            ELSE cachedSize
           /\ calls' = [calls EXCEPT ![s.call].mig =
                           IF r = "ok" THEN "done" ELSE "failedLocal"]
    /\ UNCHANGED <<adapter, ser, nonlocal, localPromise, budget>>

\* removeItem, lines 162-165: the nonlocal delete
NonlocalRemoveItem ==
    /\ NonlocalHead("removeItem", "start")
    /\ LET s == Head(nonlocalPromise)
           c == calls[s.call]
       IN  \E r \in Outcomes :
           /\ nonlocalPromise' = Tail(nonlocalPromise)
           /\ error' = Caught(r)
           /\ faults' = Spent(r)
           /\ nonlocal' = IF r = "ok" THEN [nonlocal EXCEPT ![s.key] = Null]
                          ELSE nonlocal
           /\ calls' = [calls EXCEPT ![s.call] =
                           AwaitBoth([c EXCEPT !.nlp = r])]
    /\ UNCHANGED <<adapter, ser, local, localPromise, lock, cachedSize, budget>>

\* clear, lines 186-189, and dropInstance, lines 254-257
NonlocalClear ==
    /\ nonlocalPromise # <<>>
    /\ Head(nonlocalPromise).kind \in {"clear", "dropInstance"}
    /\ LET s == Head(nonlocalPromise)
           c == calls[s.call]
       IN  \E r \in Outcomes :
           /\ nonlocalPromise' = Tail(nonlocalPromise)
           /\ error' = Caught(r)
           /\ faults' = Spent(r)
           /\ nonlocal' = IF r = "ok" THEN EmptyStore ELSE nonlocal
           /\ calls' = [calls EXCEPT ![s.call] =
                           AwaitBoth([c EXCEPT !.nlp = r])]
    /\ UNCHANGED <<adapter, ser, local, localPromise, lock, cachedSize, budget>>

\* keys, lines 233-238: the nonlocal key list
NonlocalKeys ==
    /\ NonlocalHead("keys", "start")
    /\ LET s == Head(nonlocalPromise)
           c == calls[s.call]
       IN  \E r \in Outcomes :
           /\ nonlocalPromise' = Tail(nonlocalPromise)
           /\ error' = Caught(r)
           /\ faults' = Spent(r)
           /\ calls' = [calls EXCEPT ![s.call] =
                 AwaitBoth([c EXCEPT !.nlp = r,
                      !.nlval = IF r = "ok" THEN KeysOf(nonlocal) ELSE <<>>])]
    /\ UNCHANGED <<adapter, ser, local, nonlocal, localPromise, lock, cachedSize, budget>>

\* the keys an iteration over key list ks visits when the visitor returns a
\* defined value at key stop
Visited(ks, stop) ==
    IF IndexOf(ks, stop, 1) = 0 THEN ks
    ELSE SubSeq(ks, 1, IndexOf(ks, stop, 1))

\* iterate, line 76: the iteration over the local store, run on the
\* nonlocal chain
IterateLocal ==
    /\ NonlocalHead("iterate", "local")
    /\ LET s == Head(nonlocalPromise)
           c == calls[s.call]
       IN  \E r \in Outcomes :
           /\ error' = Caught(r)
           /\ faults' = Spent(r)
           /\ IF r = "ok"
              THEN /\ nonlocalPromise' = <<[s EXCEPT !.pc = "nonlocal"]>>
                                         \o Tail(nonlocalPromise)
                   /\ calls' = [calls EXCEPT ![s.call].lval =
                                   Visited(KeysOf(local), s.key)]
              ELSE /\ nonlocalPromise' = Tail(nonlocalPromise)
                   /\ calls' = [calls EXCEPT ![s.call] =
                                   Reject([c EXCEPT !.nlp = r], r)]
    /\ UNCHANGED <<adapter, ser, local, nonlocal, localPromise, lock, cachedSize, budget>>

\* iterate, lines 77-83: the iteration over the nonlocal store
IterateNonlocal ==
    /\ NonlocalHead("iterate", "nonlocal")
    /\ LET s == Head(nonlocalPromise)
           c == calls[s.call]
       IN  \E r \in Outcomes :
           /\ nonlocalPromise' = Tail(nonlocalPromise)
           /\ error' = Caught(r)
           /\ faults' = Spent(r)
           /\ calls' = [calls EXCEPT ![s.call] =
                 IF r = "ok"
                 THEN Resolve([c EXCEPT !.nlp = "ok",
                         !.nlval = Visited(KeysOf(nonlocal), s.key)], Undefined)
                 ELSE Reject([c EXCEPT !.nlp = r], r)]
    /\ UNCHANGED <<adapter, ser, local, nonlocal, localPromise, lock, cachedSize, budget>>

----------------------------------------------------------------------------
(* Specifications *)

Links ==
    \/ LocalGetItem
    \/ LocalSetItem
    \/ LocalRemoveItem
    \/ LocalClear
    \/ LocalKeys
    \/ NonlocalGetItem
    \/ MigrateStart
    \/ MigrateRead
    \/ MigrateUpload
    \/ MigrateEvict
    \/ NonlocalRemoveItem
    \/ NonlocalClear
    \/ NonlocalKeys
    \/ IterateLocal
    \/ IterateNonlocal

\* every operation, any store call may reject
Next ==
    \/ \E k \in Keys : getItem(k)
    \/ \E k \in Keys, v \in Vals : setItem(k, v)
    \/ \E k \in Keys : removeItem(k)
    \/ clear
    \/ dropInstance
    \/ keys
    \/ length
    \/ \E i \in 0..1 : key(i)
    \/ \E stop \in Keys \cup {Null} : iterate(stop)
    \/ Links

Spec == Init /\ [][Next]_vars

\* getItem, setItem and removeItem only, no store call rejects
InitKV == InitWith(MaxCallsKV, 0)

NextKV ==
    \/ \E k \in Keys : getItem(k)
    \/ \E k \in Keys, v \in Vals : setItem(k, v)
    \/ \E k \in Keys : removeItem(k)
    \/ LocalGetItem
    \/ LocalSetItem
    \/ LocalRemoveItem
    \/ NonlocalGetItem
    \/ MigrateStart
    \/ MigrateRead
    \/ MigrateUpload
    \/ MigrateEvict
    \/ NonlocalRemoveItem

SpecKV == InitKV /\ [][NextKV]_vars

\* every operation on one key with one value, any store call may reject
NextLatch ==
    \/ getItem("a")
    \/ setItem("a", "v1")
    \/ removeItem("a")
    \/ clear
    \/ dropInstance
    \/ keys
    \/ length
    \/ key(0)
    \/ iterate(Null)
    \/ Links

SpecLatch == Init /\ [][NextLatch]_vars

\* four calls, to reach a read after a write after an unawaited delete
InitRace == InitWith(MaxCallsRace, 0)

SpecRace == InitRace /\ [][NextKV]_vars

\* local store calls return and a free lock is granted; nothing is assumed
\* of the nonlocal store, whose calls may stall
SpecStall ==
    /\ InitKV
    /\ [][NextKV]_vars
    /\ WF_vars(LocalGetItem)
    /\ WF_vars(LocalSetItem)
    /\ WF_vars(LocalRemoveItem)
    /\ WF_vars(MigrateStart)
    /\ WF_vars(MigrateRead)
    /\ WF_vars(MigrateEvict)

\* setItem, keys, length and key on the keys "" and "a", no store call
\* rejects
NextKeys ==
    \/ \E k \in {EmptyKey, "a"} : setItem(k, "v1")
    \/ keys
    \/ length
    \/ \E i \in 0..MaxIndex : key(i)
    \/ LocalSetItem
    \/ MigrateStart
    \/ MigrateRead
    \/ MigrateUpload
    \/ MigrateEvict
    \/ LocalKeys
    \/ NonlocalKeys

SpecKeys == InitKV /\ [][NextKeys]_vars

\* the sanitizer alone, on every pair of keys of at most MaxKeyLen code
\* points
InitSer ==
    /\ CacheInit(0, 0)
    /\ ser \in {SerRun(k, o) : k \in StringsUpTo(MaxKeyLen),
                                o \in StringsUpTo(MaxKeyLen)}

NextSer ==
    \/ Safeify
    \/ Unsafeify

SpecSer == InitSer /\ [][NextSer]_vars

\* the sanitizer alone, on every key of at most MaxKeyLen code points of
\* the file-name alphabet
InitName ==
    /\ CacheInit(0, 0)
    /\ ser \in {SerRun(k, <<>>) : k \in NameStringsUpTo(MaxKeyLen)}

SpecName == InitName /\ [][NextSer]_vars

\* the binary serializer alone, on every view of at most MaxBytes bytes
InitBin ==
    /\ CacheInit(0, 0)
    /\ ser \in {BinRun(v) : v \in ViewsUpTo(MaxBytes)}

NextBin ==
    \/ Serialize
    \/ Deserialize

SpecBin == InitBin /\ [][NextBin]_vars

\* cloudDirectory alone, on every options record
InitDir ==
    /\ CacheInit(0, 0)
    /\ ser \in {DirRun(o) : o \in Options}

NextDir == CloudDirectory

SpecDir == InitDir /\ [][NextDir]_vars

\* one adapter instance of each kind on its own, the directory holding
\* nothing, a value or undecodable content under key "a"; any backend call
\* may fail
InitAdapter ==
    /\ EngineInit(MaxCalls, MaxFaults)
    /\ ser = SerRun(<<>>, <<>>)
    /\ adapter \in {NewAdapter(kind, fs) :
                        kind \in AdapterKinds,
                        fs \in {{}} \cup {{File(1, "a", type,
                                     IF type = "JSON" THEN "v1" ELSE Null)} :
                                          type \in FileTypes}}

NextAdapter ==
    \/ \E k \in Keys : RemoteGetItem(k)
    \/ \E k \in Keys : RemoteSetItem(k, "v22")
    \/ \E k \in Keys : RemoteRemoveItem(k)
    \/ RemoteClear
    \/ RemoteDropInstance
    \/ RemoteKeys
    \/ RemoteLength
    \/ \E index \in 0..1 : RemoteKey(index)
    \/ \E stop \in {Null, "a"} : RemoteIterate(stop)
    \/ RemoteRefresh
    \/ RemoteStart
    \/ BackendReturn

SpecAdapter == InitAdapter /\ [][NextAdapter]_vars

\* cloudDirectory at _initStorage and dropInstanceDirectory at dropInstance,
\* on every options record and every dropInstance argument
InitDrop ==
    /\ CacheInit(0, 0)
    /\ ser \in {DropRun(o, d) : o \in Options, d \in DropOptions}

NextDrop ==
    \/ CloudDirectory
    \/ DropInstanceDirectory

SpecDrop == InitDrop /\ [][NextDrop]_vars

\* approxSize alone, on every pair of values
InitSize ==
    /\ CacheInit(0, 0)
    /\ ser \in {SizeRun(d, o) : d \in DataUpTo(MaxBytes, MaxKeyLen),
                                 o \in DataUpTo(MaxBytes, MaxKeyLen)}

NextSize == ApproxSize

SpecSize == InitSize /\ [][NextSize]_vars

\* setItem, getItem, removeItem, clear, keys and iterate, no store call
\* rejects
NextRest ==
    \/ \E k \in Keys : setItem(k, "v1")
    \/ getItem("a")
    \/ removeItem("a")
    \/ clear
    \/ keys
    \/ iterate(Null)
    \/ LocalGetItem
    \/ LocalSetItem
    \/ LocalRemoveItem
    \/ LocalClear
    \/ LocalKeys
    \/ NonlocalGetItem
    \/ MigrateStart
    \/ MigrateRead
    \/ MigrateUpload
    \/ MigrateEvict
    \/ NonlocalRemoveItem
    \/ NonlocalClear
    \/ NonlocalKeys
    \/ IterateLocal
    \/ IterateNonlocal

SpecRest == InitKV /\ [][NextRest]_vars

\* setItem and iterate only, no store call rejects
NextIterate ==
    \/ \E k \in Keys, v \in Vals : setItem(k, v)
    \/ \E stop \in Keys \cup {Null} : iterate(stop)
    \/ LocalSetItem
    \/ MigrateStart
    \/ MigrateRead
    \/ MigrateUpload
    \/ MigrateEvict
    \/ IterateLocal
    \/ IterateNonlocal

SpecIterate == InitKV /\ [][NextIterate]_vars

\* setItem, removeItem and clear only, no store call rejects
NextClear ==
    \/ \E k \in Keys, v \in Vals : setItem(k, v)
    \/ \E k \in Keys : removeItem(k)
    \/ clear
    \/ LocalSetItem
    \/ LocalRemoveItem
    \/ LocalClear
    \/ MigrateStart
    \/ MigrateRead
    \/ MigrateUpload
    \/ MigrateEvict
    \/ NonlocalRemoveItem
    \/ NonlocalClear

SpecClear == InitKV /\ [][NextClear]_vars

\* every store call returns and a free lock is granted: every link that can
\* run does run
SpecFair ==
    /\ InitKV
    /\ [][NextKV]_vars
    /\ WF_vars(LocalGetItem)
    /\ WF_vars(LocalSetItem)
    /\ WF_vars(LocalRemoveItem)
    /\ WF_vars(NonlocalGetItem)
    /\ WF_vars(MigrateStart)
    /\ WF_vars(MigrateRead)
    /\ WF_vars(MigrateUpload)
    /\ WF_vars(MigrateEvict)
    /\ WF_vars(NonlocalRemoveItem)

----------------------------------------------------------------------------
(* Vocabulary of the properties *)

Ids == 1..Len(calls)

Quiescent == localPromise = <<>> /\ nonlocalPromise = <<>>

\* call c changes what the stores hold under key k
Touches(c, k) ==
    \/ c.op \in {"setItem", "removeItem"} /\ c.key = k
    \/ c.op \in {"clear", "dropInstance"}

\* call c is a setItem of key k
IsSet(c, k) == c.op = "setItem" /\ c.key = k

\* the last call of a non-empty set of call ids
Last(S) == CHOOSE i \in S : \A j \in S : j <= i

\* the head of the local chain is a locked write or delete of key k that
\* waits for k's lock, held by a migration whose nonlocal write is in flight
WaitsForUpload(k) ==
    /\ localPromise # <<>>
    /\ Head(localPromise).kind \in {"setItem", "removeItem"}
    /\ Head(localPromise).key = k
    /\ lock[k] # 0
    /\ NonlocalHead("migrate", "upload")

\* call i has a link on the local chain behind the head
QueuedBehindHead(i) ==
    \E n \in 2..Len(localPromise) : localPromise[n].call = i

\* key k is an entry of the key list ks
InList(k, ks) == \E n \in 1..Len(ks) : ks[n] = k

\* the size estimates of the first n calls that are setItem calls past the
\* latch check whose migration has not completed
RECURSIVE Unmigrated(_)
Unmigrated(n) ==
    IF n = 0 THEN 0
    ELSE Unmigrated(n - 1)
         + ( IF /\ calls[n].op = "setItem"
                /\ calls[n].lp # "none"
                /\ calls[n].mig # "done"
             THEN approxSize(calls[n].val) ELSE 0 )

\* c is a digit character 0-9 or a lower-case a-f
IsLowerHex(c) == c \in (48..57) \cup (97..102)

\* name is a sequence of pass-through characters, of escapes % and two
\* lower-case hex digits, and of escapes %u and four lower-case hex digits
RECURSIVE IsSafeName(_)
IsSafeName(name) ==
    \/ name = <<>>
    \/ /\ name # <<>>
       /\ IsSafeChar(Head(name))
       /\ IsSafeName(Tail(name))
    \/ /\ Len(name) >= 3
       /\ name[1] = 37
       /\ \A n \in 2..3 : IsLowerHex(name[n])
       /\ IsSafeName(SubSeq(name, 4, Len(name)))
    \/ /\ Len(name) >= 6
       /\ name[1] = 37 /\ name[2] = 117
       /\ \A n \in 3..6 : IsLowerHex(name[n])
       /\ IsSafeName(SubSeq(name, 7, Len(name)))

\* the directory convention: the configured root or "nonlocalForage", then
\* the name segment unless noName is set, then the store segment unless
\* noStore is set, the backend options being those of options.nonlocalforage
ConventionDirectory(options) ==
    LET nlf == options.nonlocalforage
        root == IF nlf.given /\ TruthyText(nlf.directory)
                THEN nlf.directory ELSE DefaultRoot
    IN  root
        \o (IF nlf.given /\ nlf.noName THEN <<>>
            ELSE Segment(options.name))
        \o (IF nlf.given /\ nlf.noStore THEN <<>>
            ELSE Segment(options.storeName))

\* chain ch2 is chain ch after a step of its head link: the head has left,
\* or it has stayed and is further on in its work
HeadSteps(ch, ch2) ==
    /\ ch # <<>>
    /\ \/ ch2 = Tail(ch)
       \/ /\ ch2 # <<>>
          /\ Head(ch2).call = Head(ch).call
          /\ Head(ch2) # Head(ch)
          /\ Tail(ch2) = Tail(ch)

\* chain ch2 is chain ch one step later: the links behind the head are the
\* same links in the same order, the head has stayed (possibly further on in
\* its work) or has left, and new links, if any, are behind all of them
ChainKept(ch, ch2) ==
    \/ ch = <<>>
    \/ /\ ch # <<>>
       /\ Len(ch2) >= Len(ch)
       /\ ch2[1].call = ch[1].call /\ ch2[1].kind = ch[1].kind
       /\ \A n \in 2..Len(ch) : ch2[n] = ch[n]
    \/ /\ ch # <<>>
       /\ Len(ch2) >= Len(ch) - 1
       /\ \A n \in 2..Len(ch) : ch2[n - 1] = ch[n]

\* no link of chain ch behind the head has started
OnlyHeadStarted(ch) ==
    \A n \in 2..Len(ch) : ch[n].pc \in {"start", "local"}

\* call i owns the head of a chain
OwnsHead(i) ==
    \/ localPromise # <<>> /\ Head(localPromise).call = i
    \/ nonlocalPromise # <<>> /\ Head(nonlocalPromise).call = i

\* the local write of setItem call c was rejected
LocalWriteFailed(c) ==
    c.op = "setItem" /\ c.lp \notin {"none", "wait", "ok"}

\* the promise of adapter operation o has settled
OpSettled(o) == o.st \in {"resolved", "rejected"}

\* the directory convention for dropInstance(d) on an instance with options
\* o and directory cloudDir: the root, the name segment unless noName is set
\* and the store segment unless noStore is set are those of
\* ConventionDirectory, the backend options being those of
\* options.nonlocalforage; a segment d gives replaces the instance's own, and
\* with the name only the store segment is left out
ConventionDrop(o, cloudDir, d) ==
    LET nlf == o.nonlocalforage
        root == IF nlf.given /\ TruthyText(nlf.directory)
                THEN nlf.directory ELSE DefaultRoot
        nameSegment(x) == IF nlf.given /\ nlf.noName THEN <<>> ELSE Segment(x)
        storeSegment(x) == IF nlf.given /\ nlf.noStore THEN <<>>
                           ELSE Segment(x)
        named == d.given /\ TruthyText(d.name)
        stored == d.given /\ TruthyText(d.storeName)
    IN  IF named /\ stored
        THEN root \o nameSegment(d.name) \o storeSegment(d.storeName)
        ELSE IF named THEN root \o nameSegment(d.name)
        ELSE IF stored
        THEN root \o nameSegment(o.name) \o storeSegment(d.storeName)
        ELSE cloudDir

\* the size the estimate is to give: the bytes of a view, the bytes of a
\* buffer, the length of the JSON text otherwise
PayloadSize(d) ==
    IF d.type \in {"view", "buffer"} THEN d.byteLength
    ELSE Len(JSONstringify(d.text))

\* e has the shape of d and a payload at least as large: a view or buffer
\* of at least as many bytes, a string that d is a prefix of
Grown(d, e) ==
    /\ d.type = e.type
    /\ d.byteLength <= e.byteLength
    /\ Len(d.text) <= Len(e.text)
    /\ SubSeq(e.text, 1, Len(d.text)) = d.text

----------------------------------------------------------------------------
(* Claims *)

\* C1: read-your-writes.  A getItem(k) invoked after setItem(k, v) has
\* resolved, with no other call touching k invoked between the two (nor
\* while the getItem is pending) and no store failure, resolves to v.
C1_ReadYourWrites ==
    \A i \in Ids : \A j \in 1..(i - 1) :
        ( /\ calls[i].op = "getItem"
          /\ Settled(calls[i])
          /\ IsSet(calls[j], calls[i].key)
          /\ calls[j].st = "resolved"
          /\ j \in calls[i].before
          /\ \A m \in (j + 1)..Len(calls) :
                Touches(calls[m], calls[i].key) => m > i /\ i \in calls[m].before
          /\ faults = 0 /\ error = Null )
        => calls[i].st = "resolved" /\ calls[i].res = calls[j].val

\* C2: last writer wins.  When the calls touching key k are setItem calls
\* only, at least two of them, and both chains have drained, the nonlocal
\* store holds the value of the last setItem invoked and the local store
\* holds no entry for k.
C2_LastWriterWins ==
    Quiescent =>
        \A k \in Keys :
            LET S == {i \in Ids : Touches(calls[i], k)} IN
            ( /\ Cardinality(S) >= 2
              /\ \A i \in S : IsSet(calls[i], k) )
            => nonlocal[k] = calls[Last(S)].val /\ local[k] = Null

\* two setItem calls of one key with different values, the second invoked
\* before the first resolved, and both migrations done
C2_Witness ==
    /\ Quiescent
    /\ Len(calls) >= 2
    /\ IsSet(calls[1], "a") /\ calls[1].val = "v1"
    /\ IsSet(calls[2], "a") /\ calls[2].val = "v22"
    /\ 1 \notin calls[2].before
    /\ calls[1].mig = "done" /\ calls[2].mig = "done"
    /\ nonlocal["a"] = "v22"

\* C3: no resurrection after remove.  When the last call touching key k is
\* a removeItem(k) that follows a setItem(k, v), and both chains have
\* drained, k is absent from both stores.
C3_NoResurrection ==
    Quiescent =>
        \A k \in Keys :
            LET S == {i \in Ids : Touches(calls[i], k)} IN
            ( /\ Cardinality(S) >= 2
              /\ calls[Last(S)].op = "removeItem"
              /\ calls[Last(S)].st = "resolved"
              /\ \E j \in S : IsSet(calls[j], k) )
            => local[k] = Null /\ nonlocal[k] = Null

\* C4: migration and eviction happen.  When setItem(k, v) has resolved, no
\* later call is on k, no store call failed and both chains have drained,
\* the nonlocal store holds v under k and the local store holds no entry.
C4_MigrationHappens ==
    Quiescent =>
        \A i \in Ids :
            ( /\ calls[i].op = "setItem"
              /\ calls[i].st = "resolved"
              /\ \A m \in (i + 1)..Len(calls) :
                    calls[m].key # calls[i].key /\ ~Touches(calls[m], calls[i].key)
              /\ faults = 0 /\ error = Null )
            => nonlocal[calls[i].key] = calls[i].val /\ local[calls[i].key] = Null

\* C5: a migration failure is invisible to its own setItem and surfaces on
\* the next call.  The setItem whose migration the nonlocal store rejected
\* has resolved, and every call invoked after that failure was recorded is
\* rejected with the error cf.error held when it was invoked.
C5_MigrationFailureSurfaces ==
    \A i \in Ids :
        /\ calls[i].mig = "failed" => calls[i].st = "resolved"
        /\ calls[i].sawMigFail =>
              calls[i].st = "rejected" /\ calls[i].res = calls[i].errAtCall

\* C6: fail-fast without I/O.  A public operation invoked while the latch
\* is set leaves both stores, both chains, the lock and the cached-byte
\* counter as they were.
C6_FailFastNoIO ==
    [][ (Truthy(error) /\ Len(calls') = Len(calls) + 1) =>
            UNCHANGED <<local, nonlocal, localPromise, nonlocalPromise, lock,
                        cachedSize, error>> ]_vars

\* a setItem was invoked with the latch set, while bytes were still cached
C6_Witness ==
    \E i \in Ids :
        /\ calls[i].op = "setItem"
        /\ Truthy(calls[i].errAtCall)
        /\ calls[i].st = "rejected"
        /\ calls[i].lp = "none"
        /\ cachedSize > 0

\* C7: setItem never waits for the nonlocal store.  With local store calls
\* returning and free locks granted, and nothing assumed of the nonlocal
\* store, every setItem invoked eventually settles.
C7_SetItemNeverWaitsForRemote ==
    \A i \in 1..MaxCallsKV :
        []( (i \in Ids /\ calls[i].op = "setItem")
                => <>(i \in Ids /\ Settled(calls[i])) )

\* C8: operations on distinct keys do not block each other.  No pending
\* getItem, setItem or removeItem of key k2 has its local link queued
\* behind a link that waits for the lock of another key k1.
C8_DistinctKeysIndependent ==
    \A i \in Ids : \A k1 \in Keys :
        ~ ( /\ calls[i].st = "pending"
            /\ calls[i].key # k1
            /\ QueuedBehindHead(i)
            /\ WaitsForUpload(k1) )

\* C9: store failures reach the immediate caller and set the latch.  When a
\* pending operation is rejected by a store failure e, the latch is set and
\* holds e at that moment.
C9_FailureReachesCaller ==
    [][ \A i \in Ids :
            ( /\ calls[i].st = "pending"
              /\ calls'[i].st = "rejected"
              /\ calls'[i].res # KeyError )
            => Truthy(error') /\ error' = calls'[i].res ]_vars

\* C10: the latch is one-way.  Once set it stays set.
C10_LatchOneWay ==
    [][ Truthy(error) => Truthy(error') ]_vars

\* C11: removeItem(k) appends its local delete and its nonlocal delete to
\* their chains before it waits for either.  When it has resolved both
\* deletes have completed; when one of the two deletes failed the other one
\* has still run, the call is rejected and the latch is set.
C11_RemoveItemBothDeletes ==
    \A i \in Ids :
        (calls[i].op = "removeItem" /\ calls[i].lp # "none") =>
            /\ calls[i].lp = "wait" <=>
                  \E n \in 1..Len(localPromise) : localPromise[n].call = i
            /\ calls[i].nlp = "wait" <=>
                  \E n \in 1..Len(nonlocalPromise) : nonlocalPromise[n].call = i
            /\ calls[i].st = "resolved" =>
                  calls[i].lp = "ok" /\ calls[i].nlp = "ok"
            /\ ( /\ Quiescent
                 /\ calls[i].lp # "ok" \/ calls[i].nlp # "ok" )
               => /\ calls[i].lp # "wait" /\ calls[i].nlp # "wait"
                  /\ calls[i].st = "rejected"
                  /\ Truthy(error)

\* C12: removing an absent key is an idempotent no-op.  A removeItem(k) of
\* a key no setItem was ever invoked for is never rejected, resolves once
\* both chains have drained, leaves k absent from both stores and leaves
\* the latch unset; this holds for every such call, so also for a repeat.
C12_RemoveAbsentIsNoOp ==
    \A i \in Ids :
        ( /\ calls[i].op = "removeItem"
          /\ \A j \in Ids : ~IsSet(calls[j], calls[i].key) )
        => /\ calls[i].st # "rejected"
           /\ Settled(calls[i]) => calls[i].res = Undefined
           /\ Quiescent => calls[i].st = "resolved"
           /\ local[calls[i].key] = Null /\ nonlocal[calls[i].key] = Null
           /\ ~Truthy(error)

\* removeItem("a") resolved twice, the second invoked after the first had
\* resolved, with no setItem of "a" ever invoked
C12_Witness ==
    /\ Len(calls) >= 2
    /\ calls[1].op = "removeItem" /\ calls[1].key = "a"
    /\ calls[2].op = "removeItem" /\ calls[2].key = "a"
    /\ 1 \in calls[2].before
    /\ calls[1].st = "resolved" /\ calls[2].st = "resolved"
    /\ \A j \in Ids : ~IsSet(calls[j], "a")
    /\ local["a"] = Null /\ nonlocal["a"] = Null

\* C13: clear empties both stores.  When clear() has resolved and both
\* chains have drained, a key whose setItem was invoked before that clear,
\* and for which no setItem was invoked after it, is in neither store.
C13_ClearEmptiesBothStores ==
    Quiescent =>
        \A i \in Ids : \A k \in Keys :
            ( /\ calls[i].op = "clear"
              /\ calls[i].st = "resolved"
              /\ \E j \in 1..(i - 1) : IsSet(calls[j], k)
              /\ \A m \in (i + 1)..Len(calls) : ~IsSet(calls[m], k) )
            => local[k] = Null /\ nonlocal[k] = Null

\* C14: keys() is the local key list followed by the nonlocal key list,
\* without de-duplication.  The link of keys() on each chain takes the key
\* list of its store as it is when the link runs, and keys() resolves to the
\* local list followed by the nonlocal list.
C14_KeysConcatenates ==
    [][ \A i \in Ids :
            calls[i].op = "keys" =>
                /\ (calls[i].lp = "wait" /\ calls'[i].lp = "ok")
                      => calls'[i].lval = KeysOf(local)
                /\ (calls[i].nlp = "wait" /\ calls'[i].nlp = "ok")
                      => calls'[i].nlval = KeysOf(nonlocal)
                /\ (calls[i].st = "pending" /\ calls'[i].st = "resolved")
                      => calls'[i].res = calls'[i].lval \o calls'[i].nlval ]_vars

\* keys() invoked while "a" was in both stores (a second setItem("a") after
\* the first had migrated) has resolved with "a" twice
C14_Witness ==
    \E i \in Ids :
        /\ calls[i].op = "keys"
        /\ calls[i].st = "resolved"
        /\ calls[i].lval = <<"a">> /\ calls[i].nlval = <<"a">>
        /\ calls[i].res = <<"a", "a">>
        /\ local["a"] # Null /\ nonlocal["a"] # Null

\* C15: length() and key(i) agree with keys().  For a call invoked with
\* both chains drained and with no mutating call invoked before it settles,
\* ks being the local key list followed by the nonlocal key list: keys()
\* resolves to ks, length() to the number of entries of ks, key(i) to entry
\* i of ks when 0 <= i < length, whatever string that entry is, and key(i)
\* is rejected with the key-not-found error when i is out of range.
C15_LengthKeyConsistent ==
    [][ \A i \in Ids :
            ( /\ calls[i].op \in {"keys", "length", "key"}
              /\ calls[i].quiet
              /\ \A m \in (i + 1)..Len(calls') :
                    calls'[m].op \notin {"setItem", "removeItem", "clear",
                                         "dropInstance"}
              /\ calls[i].st = "pending"
              /\ calls'[i].st # "pending" )
            => LET ks == KeysOf(local') \o KeysOf(nonlocal') IN
               /\ calls[i].op = "keys" =>
                     calls'[i].st = "resolved" /\ calls'[i].res = ks
               /\ calls[i].op = "length" =>
                     calls'[i].st = "resolved" /\ calls'[i].res = Len(ks)
               /\ (calls[i].op = "key" /\ calls[i].arg < Len(ks)) =>
                     /\ calls'[i].st = "resolved"
                     /\ calls'[i].res = ks[calls[i].arg + 1]
               /\ (calls[i].op = "key" /\ calls[i].arg >= Len(ks)) =>
                     /\ calls'[i].st = "rejected"
                     /\ calls'[i].res = KeyError ]_vars

\* C16: iterate stops at the first defined value and resolves to it.  An
\* iterate that has resolved, whose visitor returns a defined value at key
\* stop (the value being stop itself): when stop was visited in the local
\* store no nonlocal key was visited; when stop was visited in either store
\* iterate has resolved to the value the visitor returned; and the
\* completion callback has been invoked exactly once.
C16_IterateStopsAtFirstValue ==
    \A i \in Ids :
        ( /\ calls[i].op = "iterate"
          /\ calls[i].st = "resolved"
          /\ calls[i].key # Null )
        => /\ InList(calls[i].key, calls[i].lval) => calls[i].nlval = <<>>
           /\ InList(calls[i].key, calls[i].lval \o calls[i].nlval) =>
                 calls[i].res = calls[i].key
           /\ Len(calls[i].cb) = 1

\* C17: callback parity.  For getItem, setItem, removeItem, clear, length,
\* key, keys and dropInstance: when the call has resolved its callback has
\* been invoked exactly once, with the value the call resolved to; when the
\* call is pending or rejected its callback has not been invoked.
C17_CallbackParity ==
    \A i \in Ids :
        calls[i].op \in {"getItem", "setItem", "removeItem", "clear", "length",
                         "key", "keys", "dropInstance"} =>
            calls[i].cb = IF calls[i].st = "resolved" THEN <<calls[i].res>>
                          ELSE <<>>

\* C18: cached-byte accounting.  Without store failure cachedSize() is the
\* sum of the size estimates of the setItem calls whose migration has not
\* completed, and it is 0 whenever both chains have drained, whatever
\* setItem, removeItem and clear calls were made.
C18_CachedSizeAccounting ==
    /\ cachedSize = Unmigrated(Len(calls))
    /\ Quiescent => cachedSize = 0

\* a setItem of 5 bytes is being uploaded, a clear() was invoked after it
\* and a later setItem of 4 bytes is still pending: 9 bytes are cached
C18_Witness ==
    /\ Len(calls) >= 3
    /\ calls[1].op = "setItem" /\ calls[1].val = "v22"
    /\ calls[1].mig = "upload"
    /\ calls[2].op = "clear"
    /\ calls[3].op = "setItem" /\ calls[3].val = "v1"
    /\ calls[3].st = "pending"
    /\ cachedSize = 9

\* C19: unsafeify inverts safeify.  For a key k of code points up to
\* U+FFFF (pass-through characters, one-byte code points, code points above
\* 0xFF), the key decoded from the file name of k is k.
C19_SanitizerRoundTrip ==
    (ser.pc = "back" /\ \A n \in 1..Len(ser.key) : ser.key[n] <= 65535)
        => ser.back = Units(ser.key)

\* C20: safeify is collision-free.  Two different keys have different file
\* names.
C20_SafeifyInjective ==
    (ser.pc # "input" /\ ser.key # ser.other) => ser.name # ser.otherName

\* C21: the file name of a key holds only a-z, 0-9, '-', '_' and escapes:
\* '%' with exactly two lower-case hex digits for a code of at most 0xFF,
\* '%u' with exactly four lower-case hex digits otherwise.  It holds no
\* '/', '\', '.', upper-case letter or control character.
C21_SafeifyCharset ==
    ser.pc # "input" =>
        /\ IsSafeName(ser.name)
        /\ \A n \in 1..Len(ser.name) :
              ser.name[n] \notin {47, 92, 46, 127} \cup (65..90) \cup (0..31)
        /\ \A n \in 1..Len(ser.key) :
              Len(SafeChar(ser.key[n])) =
                  IF IsSafeChar(ser.key[n]) THEN 1
                  ELSE IF charCodeAt0(ser.key[n]) <= 255 THEN 3 ELSE 6

\* the key "/." has the file name "%2f%2e"
C21_Witness ==
    /\ ser.pc = "named"
    /\ ser.key = <<47, 46>>
    /\ ser.name = <<37, 50, 102, 37, 50, 101>>

\* C22: binary round trip.  For every array kind and every buffer whose
\* length is a multiple of the element size, deserialize(serialize(a))
\* throws nothing and gives a view of the same kind over the same bytes; the
\* payload offset, 4 plus the descriptor length, is a multiple of the
\* element size.
C22_BinaryRoundTrip ==
    ser.pc = "deserialized" =>
        /\ ser.ret = Returned(ser.view.kind, ser.view.data)
        /\ (4 + Len(DescriptorText(ser.view.kind)))
               % ElementSize(ser.view.kind) = 0

\* C23: the remote directory convention.  cloudDirectory(options) is the
\* root configured in the nonlocalforage options, or "nonlocalForage",
\* followed by the sanitized name or "default" unless noName is set, and by
\* the sanitized store name or "default" unless noStore is set.  The options
\* are those of a caller that follows the README: the backend options are in
\* options.nonlocalforage and there is no field options.nonlocalForage.
C23_CloudDirectoryConvention ==
    (ser.pc = "directory" /\ ser.options.nonlocalForage = NoBackend)
        => ser.path = ConventionDirectory(ser.options)

\* C24: chain FIFO.  On each chain the links run one at a time in the order
\* they were appended: a step leaves the links behind the head of each chain
\* as they are and in their order, new links go behind them, only the head
\* of a chain has started, and only a call that owns the head of a chain
\* makes progress.  A link that is rejected leaves the chain like one that
\* succeeds, so the links behind it run.
C24_ChainFIFO ==
    [][ /\ ChainKept(localPromise, localPromise')
        /\ ChainKept(nonlocalPromise, nonlocalPromise')
        /\ OnlyHeadStarted(localPromise')
        /\ OnlyHeadStarted(nonlocalPromise')
        /\ \A i \in Ids : calls'[i] # calls[i] => OwnsHead(i) ]_vars

\* the local link of the first call was rejected and the local link of the
\* second call, appended behind it while it was queued, has run
C24_Witness ==
    /\ Len(calls) >= 2
    /\ calls[1].lp \notin {"none", "wait", "ok"}
    /\ calls[2].lp = "ok"
    /\ 1 \notin calls[2].before

\* C25: per-store total order.  Every call on the local store is made by a
\* step of the local chain and every call on the nonlocal store by a step of
\* the nonlocal chain: the contents of a store change only in a step of the
\* head link of that store's chain, which completes or goes on to its next
\* store call.
C25_PerStoreTotalOrder ==
    [][ /\ local' # local => HeadSteps(localPromise, localPromise')
        /\ nonlocal' # nonlocal => HeadSteps(nonlocalPromise, nonlocalPromise')
      ]_vars

\* C26: the migration step uploads the current local value.  A migration
\* of key k whose local read returns a value holds the value the local store
\* has under k at that moment, and that is the value its upload writes to
\* the nonlocal store, the local store still holding it; a migration whose
\* read finds no local entry writes nothing to the nonlocal store; a
\* migration that completes leaves no local entry for k.
C26_MigrationUploadsCurrentValue ==
    [][ \A i \in Ids :
            LET k == calls[i].key IN
            /\ (calls[i].mig = "read" /\ calls'[i].mig = "upload") =>
                  /\ local[k] # Null
                  /\ Head(nonlocalPromise').val = local[k]
                  /\ UNCHANGED <<local, nonlocal>>
            /\ (calls[i].mig = "read" /\ calls'[i].mig = "evict") =>
                  /\ local[k] = Null
                  /\ Head(nonlocalPromise').val = Null
                  /\ UNCHANGED <<local, nonlocal>>
            /\ (calls[i].mig = "upload" /\ calls'[i].mig = "evict") =>
                  /\ Head(nonlocalPromise).val = local[k]
                  /\ nonlocal' = [nonlocal EXCEPT ![k] = local[k]]
                  /\ local' = local
            /\ (calls[i].mig = "evict" /\ calls'[i].mig = "done") =>
                  /\ nonlocal' = nonlocal
                  /\ Head(nonlocalPromise).val = local[k]
                  /\ local[k] # Null => nonlocal[k] = local[k]
                  /\ local' = [local EXCEPT ![k] = Null] ]_vars

\* the migration of setItem("a", "v1") has uploaded "v22", written locally by
\* a second setItem before the migration ran; the second migration is queued
C26_Witness ==
    /\ Len(calls) >= 2
    /\ IsSet(calls[1], "a") /\ calls[1].val = "v1"
    /\ IsSet(calls[2], "a") /\ calls[2].val = "v22"
    /\ calls[1].mig = "done"
    /\ calls[2].mig = "queued"
    /\ nonlocal["a"] = "v22"
    /\ local["a"] = Null

\* C27: per-key mutual exclusion.  While a migration of key k holds k's lock
\* the local entry of k does not change, and from its local read to its
\* local delete the entry is the value it read, up to its own delete;
\* and a local write of k by setItem or a local delete of k by removeItem
\* completes only from a state in which k's lock is free.
C27_PerKeyMutualExclusion ==
    [][ \A k \in Keys :
            /\ lock[k] # 0 =>
                  /\ Head(nonlocalPromise).key = k
                  /\ Head(nonlocalPromise).pc \in {"upload", "evict"} =>
                        Head(nonlocalPromise).val = local[k]
                  /\ \/ lock'[k] # 0 /\ local'[k] = local[k]
                     \/ lock'[k] = 0 /\ nonlocalPromise' = Tail(nonlocalPromise)
            /\ ( /\ localPromise # <<>>
                 /\ Head(localPromise).kind \in {"setItem", "removeItem"}
                 /\ Head(localPromise).key = k
                 /\ localPromise' = Tail(localPromise) )
               => lock[k] = 0 ]_vars

\* a removeItem("a") is at the head of the local chain while the migration
\* of "a" holds the lock, between its local read and its local delete
C27_Witness ==
    /\ WaitsForUpload("a")
    /\ Head(localPromise).kind = "removeItem"
    /\ local["a"] # Null
    /\ Head(nonlocalPromise).pc = "upload"

\* C28: after the latch is set no further store operation is attempted.  In
\* a step taken with the latch set no queued link runs: no call makes
\* progress and neither store changes.
C28_NoStoreCallAfterLatch ==
    [][ Truthy(error) =>
            /\ UNCHANGED <<local, nonlocal>>
            /\ \A i \in Ids : calls'[i] = calls[i] ]_vars

\* C29: no deadlock.  When every store call returns and a free lock is
\* granted, after the last public operation every call settles and both
\* chains drain, for good.
C29_NoDeadlock ==
    <>[](Quiescent /\ \A i \in Ids : Settled(calls[i]))

\* a setItem("a") waits at the head of the local chain for the lock that the
\* migration of "a" holds during its upload, and a link of another call is
\* queued behind that migration on the nonlocal chain
C29_Witness ==
    /\ WaitsForUpload("a")
    /\ Head(localPromise).kind = "setItem"
    /\ Len(nonlocalPromise) >= 2
    /\ nonlocalPromise[2].call # Head(localPromise).call

\* C30: the cache is empty at rest.  With no store failure, whenever both
\* chains have drained the local store holds no entry, whatever setItem,
\* getItem, removeItem, clear, keys and iterate calls were made.
C30_CacheEmptyAtRest ==
    Quiescent => \A k \in AllKeys : local[k] = Null

\* both chains have drained after setItem("a"), setItem("b") and a third
\* call; both values have reached the nonlocal store
C30_Witness ==
    /\ Quiescent
    /\ Len(calls) = 3
    /\ IsSet(calls[1], "a") /\ IsSet(calls[2], "b")
    /\ calls[1].mig = "done" /\ calls[2].mig = "done"
    /\ nonlocal["a"] = "v1" /\ nonlocal["b"] = "v1"
    /\ local = EmptyStore

\* C31: a failed local write enqueues no migration.  When the local write
\* of a setItem rejects, the call is rejected with that error and the latch
\* is set; from then on the call has no migration step on the nonlocal
\* chain and none has run for it.
C31_FailedWriteNoMigration ==
    [][ \A i \in Ids :
            LocalWriteFailed(calls'[i]) =>
                /\ calls'[i].st = "rejected"
                /\ calls'[i].res = calls'[i].lp
                /\ calls'[i].mig = "none"
                /\ \A n \in 1..Len(nonlocalPromise') :
                      nonlocalPromise'[n].call # i
                /\ ~LocalWriteFailed(calls[i]) =>
                      Truthy(error') /\ nonlocal' = nonlocal ]_vars

\* C32: the latched error is stable.  Once the latch holds an error, a later
\* failure of a step that was already queued does not put another error in
\* its place (so that every later operation is rejected with the first one).
C32_LatchedErrorStable ==
    [][ (Truthy(error) /\ Truthy(error')) => error' = error ]_vars

\* C33: each remote adapter serializes its operations.  On one instance an
\* operation has started only when every operation invoked before it has
\* settled; an operation that has settled has run, whatever became of the
\* operations before it; and a rejected operation is rejected with the
\* failure of its own backend call.
C33_AdapterSerializes ==
    \A i \in 1..Len(adapter.ops) :
        LET o == adapter.ops[i] IN
        /\ o.st # "queued" =>
              \A j \in 1..(i - 1) : OpSettled(adapter.ops[j])
        /\ OpSettled(o) => o.ran
        /\ o.st = "rejected" => o.res = o.fault /\ o.fault # "none"

\* an operation was rejected by a failure of the backend, and an operation
\* invoked while it had not settled has then run and resolved
C33_Witness ==
    /\ Len(adapter.ops) >= 2
    /\ adapter.ops[1].st = "rejected"
    /\ adapter.ops[1].fault = NetworkError
    /\ adapter.ops[2].behind = 1
    /\ adapter.ops[2].ran
    /\ adapter.ops[2].st = "resolved"

\* C34: removing a key that has no file is not an error.  In every adapter
\* a removeItem that ran while no file was stored under its key, and none
\* of whose backend calls failed for a reason other than the missing path,
\* has resolved.
C34_RemoveMissingResolves ==
    \A i \in 1..Len(adapter.ops) :
        LET o == adapter.ops[i] IN
        ( /\ o.op = "removeItem"
          /\ OpSettled(o)
          /\ o.ran
          /\ ~o.found
          /\ o.fault # NetworkError )
        => o.st = "resolved"

\* C35: absent means null, a failure is not null.  A getItem of an adapter
\* that has resolved to null ran while no file was stored under its key and
\* none of its backend calls failed for a reason other than the missing
\* file; and a getItem one of whose backend calls did so fail is rejected.
C35_NullOnlyWhenAbsent ==
    \A i \in 1..Len(adapter.ops) :
        LET o == adapter.ops[i] IN
        (o.op = "getItem" /\ OpSettled(o) /\ o.ran) =>
            /\ (o.st = "resolved" /\ o.res = Null) =>
                  ~o.found /\ o.fault \in {"none", NotFound}
            /\ o.fault \in {NetworkError} \cup DecodeErrors =>
                  o.st = "rejected"

\* C36: dropInstanceDirectory follows the directory convention.  For an
\* instance whose options set no backend options, with cloudDir its
\* directory, the directory to delete is cloudDir when dropInstance is given
\* neither name nor storeName, root/name/storeName when given both,
\* root/name when given the name only, and the instance's own name segment
\* followed by the given store segment when given the storeName only.
C36_DropDirectoryConvention ==
    ( /\ ser.pc = "dropped"
      /\ ser.options.nonlocalforage = NoBackend
      /\ ser.options.nonlocalForage = NoBackend )
    => ser.toDelete = ConventionDrop(ser.options, ser.path, ser.drop)

\* C37: approxSize is a natural number; it is the byte length of a view,
\* also of a view on a part of its buffer, the byte length of a buffer, the
\* length of the JSON text of any other value; and it does not decrease
\* when the payload of a value grows within its shape.
C37_ApproxSize ==
    ser.pc = "sized" =>
        /\ ser.size \in Nat
        /\ ser.size = PayloadSize(ser.data)
        /\ Grown(ser.data, ser.other) => ser.size <= ser.otherSize

====
